---- MODULE Spec2Model ----
(***************************************************************************)
(* A model of the hypercore-protocol endpoint (src/src/protocol.rs,        *)
(* src/src/feed.rs, src/src/wire_format.rs, src/src/crypto_stream.rs).     *)
(*                                                                         *)
(* Bytes are the integers 0..255 and byte strings are sequences of them.   *)
(* Indices named start/end/pointer are 0-based, as in the source; the      *)
(* helpers Slice and At convert to TLA+'s 1-based sequences.  An endpoint  *)
(* is a record holding the fields of `Protocol`; every method of the       *)
(* source is an operator from the record (and its arguments) to the record *)
(* after the call.  A Rust panic (unimplemented!(), a failed assert, an    *)
(* unwrap of None/Err, a slice out of range) is recorded in the field      *)
(* `panic`: the assignments made before the panic are kept, nothing after  *)
(* it runs, and no later call enters the endpoint.                         *)
(***************************************************************************)
EXTENDS Integers, Sequences, FiniteSets, TLC

\* ------------------------------------------------------------------------
\* Bounds of the model (not program constants)
\* ------------------------------------------------------------------------

\* keys the application and the remote may use: 1..NumKeys
NumKeys == 2
\* nonces `Nonce::new()` may draw: 1..NumNonces
NumNonces == 2
\* messages the scripted remote sends after opening its channel
MaxMsgs == 18
\* messages the scripted remote sends in the chunked runs
ChunkMsgs == 1
\* write calls of a chunked run
MaxWrites == 2
\* bytes of user data in the remote's handshake of the chunked runs (makes
\* the length prefix of that frame two bytes long)
ChunkUserData == 100
\* frames an endpoint pushes before the application stops calling data()
MaxSent == 4
\* messages the scripted remote sends in the runs of SendSpec
SendMsgs == 1
\* distinct keys the application opens channels for in the runs of ManySpec
ManyKeys == 129
\* the longest input given to a cipher in the runs of CipherSpec
CipherLen == 4

\* ------------------------------------------------------------------------
\* Program constants
\* ------------------------------------------------------------------------

DK_LEN == 32
NONCE_LEN == 24
ID_LEN == 32
VARINT_8M_ENCODING_LENGTH == 4
MAX_MESSAGE == 8388608
MAX_CHANNELS == 128
max_feeds == 256
MAX_PENDING == 16

T_Feed == 0
T_Handshake == 1
T_Info == 2
T_Data == 9
T_Extension == 15

None == <<>>
Some(v) == <<v>>
IsSome(o) == Len(o) > 0
IsNone(o) == Len(o) = 0
Unwrap(o) == o[1]

\* ------------------------------------------------------------------------
\* Byte strings
\* ------------------------------------------------------------------------

\* bytes[start..end] of the source (0-based, end exclusive)
Slice(bytes, start, end) == SubSeq(bytes, start + 1, end)
\* bytes[i] of the source (0-based)
At(bytes, i) == bytes[i + 1]
Zeros(n) == [i \in 1..n |-> 0]
Rep(n, b) == [i \in 1..n |-> b]

RECURSIVE Concat(_)
Concat(ss) == IF Len(ss) = 0 THEN <<>> ELSE Head(ss) \o Concat(Tail(ss))

RECURSIVE XorBits(_, _, _)
XorBits(a, b, n) ==
    IF n = 0 THEN 0
    ELSE ((a + b) % 2) + 2 * XorBits(a \div 2, b \div 2, n - 1)

XorNib == [a \in 0..15, b \in 0..15 |-> XorBits(a, b, 4)]

XorByte(a, b) == 16 * XorNib[a \div 16, b \div 16] + XorNib[a % 16, b % 16]

\* ------------------------------------------------------------------------
\* crypto_stream.rs: the XSalsa20 keystream and the stateful Xor instance
\* ------------------------------------------------------------------------

\* Byte i (0-based) of the keystream of (nonce, key).  XSalsa20 is a
\* pseudo-random function of (nonce, key, i); the model fixes one table.
\* A nonce is identified by its first byte.
KeyStream(nonce, key, i) ==
    (131 * nonce[1] + 89 * key + 57 * i + ((i * i) % 7) * 16) % 256

\* crypto_stream_xor_instance(nonce, key): position 0 of the keystream
crypto_stream_xor_instance(nonce, key) == [nonce |-> nonce, key |-> key, pos |-> 0]

\* Xor::update: the output bytes
XorOut(xor, input) ==
    [i \in 1..Len(input) |->
        XorByte(input[i], KeyStream(xor.nonce, xor.key, xor.pos + i - 1))]

\* Xor::update of a cipher that keeps no position: every call starts at
\* the position the instance was created with
XorAdvance_Stateless(xor, input) == xor

\* Xor::update: the instance afterwards
XorAdvance(xor, input) == [xor EXCEPT !.pos = xor.pos + Len(input)]

\* ------------------------------------------------------------------------
\* integer_encoding::VarInt as used by the source
\* ------------------------------------------------------------------------

RECURSIVE encode_var(_)
encode_var(n) ==
    IF n < 128 THEN <<n>> ELSE <<128 + (n % 128)>> \o encode_var(n \div 128)

required_space(n) == Len(encode_var(n))

Pow128(k) == CASE k = 0 -> 1 [] k = 1 -> 128 [] k = 2 -> 16384 [] OTHER -> 2097152

\* VarInt::decode_var(src): <<value, bytes read>>.  The loop stops after the
\* first byte without the continuation bit or at the end of src.  Only the
\* low 28 bits are accumulated (every reader of the value in the source
\* takes it modulo 2^16 or has read at most 4 bytes).
RECURSIVE decode_var_loop(_, _, _)
decode_var_loop(src, i, acc) ==
    IF i > Len(src) THEN <<acc, i - 1>>
    ELSE LET b == src[i]
             acc2 == IF i <= 4 THEN acc + (b % 128) * Pow128(i - 1) ELSE acc
         IN  IF b < 128 THEN <<acc2, i>> ELSE decode_var_loop(src, i + 1, acc2)

decode_var(src) == decode_var_loop(src, 1, 0)

\* ------------------------------------------------------------------------
\* The payload schema (protobuf wire encoding of schema::Feed,
\* schema::Handshake, schema::Info)
\* ------------------------------------------------------------------------

PbBytes(field, bytes) == <<field * 8 + 2>> \o encode_var(Len(bytes)) \o bytes
PbBool(field, b) == <<field * 8, IF b THEN 1 ELSE 0>>
PbOptBytes(field, o) == IF IsSome(o) THEN PbBytes(field, Unwrap(o)) ELSE <<>>
PbOptBool(field, o) == IF IsSome(o) THEN PbBool(field, Unwrap(o)) ELSE <<>>

RECURSIVE PbRepBytes(_, _)
PbRepBytes(field, ss) ==
    IF Len(ss) = 0 THEN <<>> ELSE PbBytes(field, Head(ss)) \o PbRepBytes(field, Tail(ss))

\* schema::Feed { discoveryKey = 1 (bytes), nonce = 2 (bytes, optional) }
FeedMsg(dk, nonce) ==
    [type |-> T_Feed, discoveryKey |-> dk, nonce |-> nonce]
EncodeFeedPayload(m) == PbBytes(1, m.discoveryKey) \o PbOptBytes(2, m.nonce)

\* schema::Handshake { id = 1, live = 2, userData = 3, extensions = 4, ack = 5 }
HandshakeMsg(id, live, userData, extensions, ack) ==
    [type |-> T_Handshake, id |-> id, live |-> live, userData |-> userData,
     extensions |-> extensions, ack |-> ack]
EncodeHandshakePayload(m) ==
    PbOptBytes(1, m.id) \o PbOptBool(2, m.live) \o PbOptBytes(3, m.userData)
        \o PbRepBytes(4, m.extensions) \o PbOptBool(5, m.ack)

\* schema::Info { uploading = 1 (bool), downloading = 2 (bool) }
InfoMsg(uploading, downloading) ==
    [type |-> T_Info, uploading |-> uploading, downloading |-> downloading]
EncodeInfoPayload(m) == PbOptBool(1, m.uploading) \o PbOptBool(2, m.downloading)

\* schema::Data { index = 1 (uint64), value = 2 (bytes, optional) }, the
\* fields the source sets
DataMsg(index, value) == [type |-> T_Data, index |-> index, value |-> value]
EncodeDataPayload(m) == <<8>> \o encode_var(m.index) \o PbOptBytes(2, m.value)

\* a message of one of the other schema types, kept as its raw fields
RawMsg(type, fields) == [type |-> type, fields |-> fields]

\* The fields of a protobuf payload: [ok, fields], each field <<number, wire
\* type, value>>.  Wire types 0 (varint), 1 (64-bit), 2 (length-delimited)
\* and 5 (32-bit) are read; a truncated field, field number 0 or another
\* wire type is a parse error.
RECURSIVE ParseFields(_, _, _)
ParseFields(bytes, pos, acc) ==
    IF pos > Len(bytes) THEN [ok |-> TRUE, fields |-> acc]
    ELSE
    LET tagv == decode_var(SubSeq(bytes, pos, Len(bytes)))
        tag == tagv[1]
        p1 == pos + tagv[2]
        field == tag \div 8
        wt == tag % 8
        bad == [ok |-> FALSE, fields |-> acc]
    IN  IF bytes[pos + tagv[2] - 1] >= 128 \/ field = 0 THEN bad
        ELSE CASE wt = 0 ->
                 LET v == decode_var(SubSeq(bytes, p1, Len(bytes)))
                 IN  IF v[2] = 0 \/ bytes[p1 + v[2] - 1] >= 128 THEN bad
                     ELSE ParseFields(bytes, p1 + v[2], Append(acc, <<field, 0, v[1]>>))
             [] wt = 2 ->
                 LET v == decode_var(SubSeq(bytes, p1, Len(bytes)))
                     p2 == p1 + v[2]
                 IN  IF v[2] = 0 \/ v[2] > 4 \/ bytes[p1 + v[2] - 1] >= 128
                            \/ p2 + v[1] - 1 > Len(bytes)
                     THEN bad
                     ELSE ParseFields(bytes, p2 + v[1],
                              Append(acc, <<field, 2, SubSeq(bytes, p2, p2 + v[1] - 1)>>))
             [] wt = 1 ->
                 IF p1 + 7 > Len(bytes) THEN bad
                 ELSE ParseFields(bytes, p1 + 8, Append(acc, <<field, 1, 0>>))
             [] wt = 5 ->
                 IF p1 + 3 > Len(bytes) THEN bad
                 ELSE ParseFields(bytes, p1 + 4, Append(acc, <<field, 5, 0>>))
             [] OTHER -> bad

\* the fields numbered `field`, in order
FieldsOf(fs, field) == SelectSeq(fs, LAMBDA f: f[1] = field)
\* a known field met with another wire type is a parse error
WireOk(fs, field, wt) == \A i \in 1..Len(fs): fs[i][1] = field => fs[i][2] = wt
\* optional scalar: the last occurrence wins
LastOf(fs, field) ==
    LET xs == FieldsOf(fs, field)
    IN  IF Len(xs) = 0 THEN None ELSE Some(xs[Len(xs)][3])
LastBool(fs, field) ==
    LET o == LastOf(fs, field) IN IF IsSome(o) THEN Some(Unwrap(o) # 0) ELSE None
AllOf(fs, field) == LET xs == FieldsOf(fs, field) IN [i \in 1..Len(xs) |-> xs[i][3]]
IsAscii(bytes) == \A i \in 1..Len(bytes): bytes[i] < 128

\* schema::Feed from the parsed fields r; discoveryKey is a required field
FeedOfFields(r) ==
    LET fs == r.fields
        good == r.ok /\ WireOk(fs, 1, 2) /\ WireOk(fs, 2, 2) /\ Len(FieldsOf(fs, 1)) > 0
    IN  [ok |-> good,
         msg |-> IF good THEN FeedMsg(Unwrap(LastOf(fs, 1)), LastOf(fs, 2))
                 ELSE FeedMsg(<<>>, None)]

\* parse_from_bytes::<schema::Feed>
DecodeFeedPayload(bytes) == FeedOfFields(ParseFields(bytes, 1, <<>>))

\* schema::Handshake from the parsed fields r; an extension name is a string
HandshakeOfFields(r) ==
    LET fs == r.fields
        good == r.ok /\ WireOk(fs, 1, 2) /\ WireOk(fs, 2, 0) /\ WireOk(fs, 3, 2)
                     /\ WireOk(fs, 4, 2) /\ WireOk(fs, 5, 0)
                     /\ \A i \in 1..Len(fs): fs[i][1] = 4 => IsAscii(fs[i][3])
    IN  [ok |-> good,
         msg |-> IF good
                 THEN HandshakeMsg(LastOf(fs, 1), LastBool(fs, 2), LastOf(fs, 3),
                                   AllOf(fs, 4), LastBool(fs, 5))
                 ELSE HandshakeMsg(None, None, None, <<>>, None)]

\* parse_from_bytes::<schema::Handshake>
DecodeHandshakePayload(bytes) == HandshakeOfFields(ParseFields(bytes, 1, <<>>))

\* schema::Info from the parsed fields r
InfoOfFields(r) ==
    LET fs == r.fields
        good == r.ok /\ WireOk(fs, 1, 0) /\ WireOk(fs, 2, 0)
    IN  [ok |-> good,
         msg |-> IF good THEN InfoMsg(LastBool(fs, 1), LastBool(fs, 2))
                 ELSE InfoMsg(None, None)]

\* parse_from_bytes::<schema::Info>
DecodeInfoPayload(bytes) == InfoOfFields(ParseFields(bytes, 1, <<>>))

\* a message of another schema type from the parsed fields r
RawOfFields(type, r) ==
    [ok |-> r.ok, msg |-> RawMsg(type, IF r.ok THEN r.fields ELSE <<>>)]

DecodeRawPayload(type, bytes) == RawOfFields(type, ParseFields(bytes, 1, <<>>))

\* ------------------------------------------------------------------------
\* wire_format.rs
\* ------------------------------------------------------------------------

ValidType(t) == t \in (0..9) \cup {15}

\* encode_header: (channel << 4) | type; asserts channel < MAX_CHANNELS
encode_header(channel, type) == channel * 16 + type

\* decode_header(u16): MessageType::from panics on an unknown tag and
\* channel_from asserts the channel to be below MAX_CHANNELS
decode_header_panics(header) ==
    ~ValidType(header % 16) \/ (header \div 16) >= MAX_CHANNELS
\* decode_header taking the channel from the low byte of the header only
decode_header_Byte(header) == [channel |-> (header % 256) \div 16, type |-> header % 16]
decode_header(header) == [channel |-> header \div 16, type |-> header % 16]

\* the payload of a message kept as its raw fields: the tag of each field,
\* then its varint or its length and bytes
RECURSIVE EncodeRawFields(_)
EncodeRawFields(fs) ==
    IF Len(fs) = 0 THEN <<>>
    ELSE LET f == Head(fs)
         IN  (IF f[2] = 0 THEN <<f[1] * 8>> \o encode_var(f[3]) ELSE PbBytes(f[1], f[3]))
                 \o EncodeRawFields(Tail(fs))

\* Message::Extension(bytes)
ExtensionMsg(bytes) == [type |-> T_Extension, bytes |-> bytes]

\* write_message / get_size
EncodePayload(m) ==
    IF "fields" \in DOMAIN m THEN EncodeRawFields(m.fields) ELSE
    CASE m.type = T_Feed -> EncodeFeedPayload(m)
      [] m.type = T_Handshake -> EncodeHandshakePayload(m)
      [] m.type = T_Info -> EncodeInfoPayload(m)
      [] m.type = T_Data -> EncodeDataPayload(m)

\* write_msg(channel, msg): varint(len) varint(header) payload
write_msg(channel, m) ==
    LET header == encode_header(channel, m.type)
        payload == EncodePayload(m)
    IN  encode_var(required_space(header) + Len(payload))
            \o encode_var(header) \o payload

\* write_msg panics in encode_header's assert, and in write_message for
\* Message::Extension, which is unimplemented!()
write_msg_panics(channel, m) == channel >= MAX_CHANNELS \/ m.type = T_Extension

\* read_msg2(type, bytes): [ok, msg]; Extension is unimplemented!()
read_msg2(type, bytes) ==
    CASE type = T_Feed -> DecodeFeedPayload(bytes)
      [] type = T_Handshake -> DecodeHandshakePayload(bytes)
      [] type = T_Info -> DecodeInfoPayload(bytes)
      [] OTHER -> DecodeRawPayload(type, bytes)

\* read_msg_from_reader: the length, the header, then read_msg2 on what is
\* left of the reader; [panic, ok, channel, msg]
read_msg_from_reader(bytes) ==
    LET lenv == decode_var(bytes)
        rest == SubSeq(bytes, lenv[2] + 1, Len(bytes))
        hv == decode_var(rest)
        header == hv[1] % 65536
        payload == SubSeq(rest, hv[2] + 1, Len(rest))
        h == decode_header(header)
        none == [panic |-> TRUE, ok |-> FALSE, channel |-> 0, msg |-> None]
    IN  IF lenv[1] < required_space(header) THEN none
        ELSE IF decode_header_panics(header) THEN none
        ELSE IF h.type = T_Extension THEN none
        ELSE LET r == read_msg2(h.type, payload)
             IN  [panic |-> FALSE, ok |-> r.ok, channel |-> h.channel,
                  msg |-> IF r.ok THEN Some(r.msg) ELSE None]

\* ------------------------------------------------------------------------
\* protocol.rs: keys, nonces, ids
\* ------------------------------------------------------------------------

Keys == 1..NumKeys
\* Nonce::new(): 24 random bytes; the model draws one of NumNonces values
Nonce(n) == Rep(NONCE_LEN, n)
Nonces == {Nonce(n) : n \in 1..NumNonces}
\* an Id of 32 equal bytes
IdOf(b) == Rep(ID_LEN, b)

\* discovery_key(key): the keyed BLAKE2b digest of "hypercore" under the
\* key, a 32-byte string that depends on the key alone; distinct model keys
\* (below 256) have distinct digests.
discovery_key(key) == [i \in 1..DK_LEN |-> (16 * key + (key \div 16) + 7 * i) % 256]

\* ------------------------------------------------------------------------
\* The endpoint record: the fields of `Protocol`, the channel objects it
\* shares (chan, by the discovery key each was created for), the transport
\* sink (sent: one entry per _push call), the emitter (events) and the
\* panic marker.  plain, dispatched and destroy_reason are history fields:
\* the encoding of each pushed frame before the cipher, the frames whose
\* header _onmessage decoded, and the argument of the destroy call.
\* ------------------------------------------------------------------------

DefaultOpts ==
    [id |-> None, live |-> None, user_data |-> None, ack |-> None,
     encrypted |-> None, extensions |-> None]

unwrap_or(o, d) == IF IsSome(o) THEN Unwrap(o) ELSE d

\* Protocol::new(opts); random is the value random_id() draws
ProtocolNew(opts, random) ==
    [id |-> unwrap_or(opts.id, random),
     live |-> unwrap_or(opts.live, FALSE),
     ack |-> unwrap_or(opts.ack, FALSE),
     user_data |-> opts.user_data,
     remote_id |-> None, remote_live |-> None, remote_ack |-> None,
     remote_user_data |-> None,
     destroyed |-> FALSE,
     encrypted |-> unwrap_or(opts.encrypted, TRUE),
     key |-> None, discovery_key |-> None, remote_discovery_key |-> None,
     extensions |-> unwrap_or(opts.extensions, <<>>),
     remote_extensions |-> <<>>,
     _local_feeds |-> <<>>, _remote_feeds |-> <<>>, _feeds |-> {},
     chan |-> <<>>,
     _nonce |-> None, _remote_nonce |-> None, _xor |-> None, _remote_xor |-> None,
     _needs_key |-> FALSE,
     _length |-> Zeros(VARINT_8M_ENCODING_LENGTH),
     _missing |-> 0, _buf |-> None, _pointer |-> 0, _data |-> None, _start |-> 0,
     _keep_alive |-> 0, _remote_keep_alive |-> 0,
     sent |-> <<>>, events |-> <<>>, panic |-> "none",
     ret |-> 0, flag |-> TRUE, result |-> None,
     plain |-> <<>>, dispatched |-> <<>>, destroy_reason |-> None]

Panic(p, why) == [p EXCEPT !.panic = why]
Running(p) == p.panic = "none"

\* Feed::new
FeedNew ==
    [key |-> None, discovery_key |-> None, id |-> None, remote_id |-> None,
     closed |-> FALSE, _buffer |-> Some(<<>>)]

WithChan(p, dk, ch) == [p EXCEPT !.chan = (dk :> ch) @@ p.chan]

Ev(kind, dk, msg) == [kind |-> kind, dk |-> dk, msg |-> msg]
HandshakeEvent == Ev("Handshake", None, None)

\* ------------------------------------------------------------------------
\* FeedStreamHack (the channel's view of the endpoint)
\* ------------------------------------------------------------------------

\* FeedStreamHack::_push with the cipher step left out: the frame is handed
\* to the transport as encoded
FeedStreamHack_push_Clear(p, bytes) ==
    IF p.destroyed THEN p
    ELSE [p EXCEPT !._keep_alive = 0,
                   !.sent = Append(p.sent, bytes),
                   !.plain = Append(p.plain, bytes)]

\* FeedStreamHack::_push: the buffer handed to the transport starts as
\* zeros and is filled by the local cipher only when there is one
FeedStreamHack_push(p, bytes) ==
    IF p.destroyed THEN p
    ELSE LET buf == IF IsSome(p._xor) THEN XorOut(Unwrap(p._xor), bytes)
                    ELSE Zeros(Len(bytes))
         IN  [p EXCEPT !._keep_alive = 0,
                       !._xor = IF IsSome(p._xor)
                                THEN Some(XorAdvance(Unwrap(p._xor), bytes))
                                ELSE None,
                       !.sent = Append(p.sent, buf),
                       !.plain = Append(p.plain, bytes)]

\* the order of Rust's Ord on byte strings (lexicographic)
RECURSIVE BytesLess(_, _)
BytesLess(a, b) ==
    IF Len(b) = 0 THEN FALSE
    ELSE IF Len(a) = 0 THEN TRUE
    ELSE IF a[1] # b[1] THEN a[1] < b[1]
    ELSE BytesLess(Tail(a), Tail(b))

\* slice::binary_search(needle).ok(): Some(0-based index) or None
RECURSIVE binary_search_loop(_, _, _, _)
binary_search_loop(hay, needle, base, size) ==
    IF size > 1
    THEN LET half == size \div 2
             mid == base + half
         IN  binary_search_loop(hay, needle,
                 IF BytesLess(needle, At(hay, mid)) THEN base ELSE mid, size - half)
    ELSE IF At(hay, base) = needle THEN Some(base) ELSE None

binary_search(hay, needle) ==
    IF Len(hay) = 0 THEN None ELSE binary_search_loop(hay, needle, 0, Len(hay))

sorted_index_of(haystack, needles) ==
    [i \in 1..Len(needles) |-> binary_search(haystack, needles[i])]

\* FeedStreamHack::_onhandshake without the test of remote_id: every
\* Handshake is recorded and announced
FeedStreamHack_onhandshake_Again(p, hs) ==
    IF IsSome(hs.id) /\ Len(Unwrap(hs.id)) # ID_LEN
    THEN Panic(p, "unwrap: id is not 32 bytes")
    ELSE [p EXCEPT !.remote_id = Some(IF IsSome(hs.id) THEN Unwrap(hs.id) ELSE IdOf(0)),
                   !.remote_live = hs.live,
                   !.remote_user_data = hs.userData,
                   !.remote_extensions = sorted_index_of(p.extensions, hs.extensions),
                   !.remote_ack = hs.ack,
                   !.events = Append(p.events, HandshakeEvent)]

\* FeedStreamHack::_onhandshake.  An absent id is replaced by random_id(),
\* modelled as the all-zero id.
FeedStreamHack_onhandshake(p, hs) ==
    IF IsSome(p.remote_id) THEN p
    ELSE IF IsSome(hs.id) /\ Len(Unwrap(hs.id)) # ID_LEN
    THEN Panic(p, "unwrap: id is not 32 bytes")
    ELSE [p EXCEPT !.remote_id = Some(IF IsSome(hs.id) THEN Unwrap(hs.id) ELSE IdOf(0)),
                   !.remote_live = hs.live,
                   !.remote_user_data = hs.userData,
                   !.remote_extensions = sorted_index_of(p.extensions, hs.extensions),
                   !.remote_ack = hs.ack,
                   !.events = Append(p.events, HandshakeEvent)]

\* ------------------------------------------------------------------------
\* feed.rs: the channel (`Feed`) methods, on the channel created for dk
\* ------------------------------------------------------------------------

\* Feed::handshake: write_msg(self.id.unwrap(), Handshake) then _push
Feed_handshake(p, dk, hs) ==
    LET id == Unwrap(p.chan[dk].id)
    IN  IF id >= MAX_CHANNELS THEN Panic(p, "assert: channel < MAX_CHANNELS")
        ELSE FeedStreamHack_push(p, write_msg(id, hs))

\* Feed::data: write_msg(self.id.unwrap(), Data) then _push
Feed_data(p, dk, data) ==
    IF IsNone(p.chan[dk].id) THEN Panic(p, "unwrap: id is None")
    ELSE IF Unwrap(p.chan[dk].id) >= MAX_CHANNELS
    THEN Panic(p, "assert: channel < MAX_CHANNELS")
    ELSE FeedStreamHack_push(p, write_msg(Unwrap(p.chan[dk].id), data))

\* Feed::_onclose: marks the channel closed, then unimplemented!()
Feed_onclose(p, dk) ==
    IF p.chan[dk].closed THEN p
    ELSE Panic([p EXCEPT !.chan[dk].closed = TRUE], "unimplemented: Feed::_onclose")

\* Feed::_resume: unimplemented!()
Feed_resume(p, dk) == Panic(p, "unimplemented: Feed::_resume")

\* Feed::_onextension: unimplemented!()
Feed_onextension(p, dk) == Panic(p, "unimplemented: Feed::_onextension")

\* Feed::destroy: unimplemented!()
Feed_destroy(p, dk, err) == Panic(p, "unimplemented: Feed::destroy")

\* FeedEventEmitterImpl::emit (the channel's emitter): unimplemented!()
FeedEventEmitterImpl_emit(p, event) == Panic(p, "unimplemented: FeedEventEmitterImpl::emit")

\* the bound tested before a message is appended to _buffer
BufferFull(buffer) == Len(buffer) > MAX_PENDING

\* Feed::_onmessage once read_msg2 returned r
Feed_onmessage_msg(p, dk, type, r) ==
    IF ~r.ok THEN Panic(p, "unwrap: read_msg2 failed")
    ELSE IF p.chan[dk].closed THEN p
    ELSE IF type = T_Handshake THEN FeedStreamHack_onhandshake(p, r.msg)
    ELSE IF IsNone(p.chan[dk]._buffer)
    THEN FeedEventEmitterImpl_emit(p, Ev("Message", Some(dk), Some(r.msg)))
    ELSE IF BufferFull(Unwrap(p.chan[dk]._buffer))
    THEN Feed_destroy(p, dk, "Remote sent too many messages on an unopened feed")
    ELSE [p EXCEPT !.chan[dk]._buffer = Some(Append(Unwrap(p.chan[dk]._buffer), r.msg))]

\* Feed::_onmessage
Feed_onmessage(p, dk, type, bytes, start, end) ==
    IF start > end \/ end > Len(bytes) THEN Panic(p, "slice index out of range")
    ELSE Feed_onmessage_msg(p, dk, type, read_msg2(type, Slice(bytes, start, end)))

\* ------------------------------------------------------------------------
\* protocol.rs: Protocol methods
\* ------------------------------------------------------------------------

_too_many_feeds(p) == Panic(p, "unimplemented: _too_many_feeds")
_too_big(p) == Panic(p, "unimplemented: _too_big")
_bad_feed(p) == Panic(p, "unimplemented: _bad_feed")

\* Protocol::push: the bytes go to the transport as they are
push(p, bytes, plainBytes) ==
    [p EXCEPT !.sent = Append(p.sent, bytes), !.plain = Append(p.plain, plainBytes)]

\* The map iteration of _close visits the channels in an order the source
\* does not fix; the model visits them by ascending discovery key.  Every
\* channel that is not yet closed panics in Feed::_onclose, so the order
\* decides only which channel carries the closed mark.
RECURSIVE CloseAll(_, _)
CloseAll(p, dks) ==
    IF dks = {} \/ ~Running(p) THEN p
    ELSE LET dk == CHOOSE d \in dks: \A e \in dks: d = e \/ BytesLess(d, e)
         IN  CloseAll(Feed_onclose(p, dk), dks \ {dk})

\* Protocol::_close: takes the channel map, closes each channel, drops the
\* local cipher
_close(p) ==
    LET q == CloseAll([p EXCEPT !._feeds = {}], p._feeds)
    IN  IF Running(q) THEN [q EXCEPT !._xor = None] ELSE q

\* Protocol::destroy(error)
destroy(p, error) ==
    IF p.destroyed THEN p
    ELSE _close([p EXCEPT !.destroyed = TRUE, !.destroy_reason = Some(error)])

\* Protocol::_same_key: the result is left in flag
_same_key(p) ==
    IF ~p.encrypted THEN [p EXCEPT !.flag = TRUE]
    ELSE IF IsNone(p.discovery_key) \/ IsNone(p.remote_discovery_key)
    THEN [p EXCEPT !.flag = TRUE]
    ELSE IF p.discovery_key = p.remote_discovery_key THEN [p EXCEPT !.flag = TRUE]
    ELSE [destroy(p, "First shared hypercore must be the same") EXCEPT !.flag = FALSE]

\* Protocol::_feed inserting a new channel on every call, whether the map
\* holds one for dk or not
_feed_Fresh(p, dk) ==
    [WithChan(p, dk, FeedNew) EXCEPT !._feeds = p._feeds \cup {dk}]

\* Protocol::_feed(dk): the channel of dk, created when the map has none
_feed(p, dk) ==
    IF dk \in p._feeds THEN p
    ELSE [WithChan(p, dk, FeedNew) EXCEPT !._feeds = p._feeds \cup {dk}]

\* decode_feed, the length checks on the parsed message r
CheckFeed(r) ==
    LET invalid_dk == Len(r.msg.discoveryKey) # DK_LEN
        invalid_nonce == IsSome(r.msg.nonce) /\ Len(Unwrap(r.msg.nonce)) # NONCE_LEN
    IN  [ok |-> r.ok /\ ~invalid_dk /\ ~invalid_nonce, msg |-> r.msg]

\* decode_feed: [ok, msg]
decode_feed(bytes, start, end) == CheckFeed(DecodeFeedPayload(Slice(bytes, start, end)))

\* the tail of _onopen: the channel of dk takes the remote slot id
OnopenAttach(q, id, dk) ==
    [q EXCEPT !._remote_feeds[id + 1] = Some(dk), !.chan[dk].remote_id = Some(id)]

OnopenStore(p, id, dk) == OnopenAttach(_feed(p, dk), id, dk)

\* _onopen for the first remote Feed, after _same_key ran
OnopenFirst(p, id, feed) ==
    IF ~Running(p) \/ ~p.flag THEN p
    ELSE IF p.encrypted /\ IsNone(p._remote_nonce) /\ IsNone(feed.nonce)
    THEN destroy(p, "Remote did not include a nonce")
    ELSE
    LET nonce == IF p.encrypted /\ IsNone(p._remote_nonce)
                 THEN feed.nonce ELSE p._remote_nonce
    IN  OnopenStore(
            [p EXCEPT !._remote_nonce = nonce,
                      !._remote_xor =
                          IF p.encrypted /\ IsSome(p.key) /\ IsNone(p._remote_xor)
                          THEN Some(crypto_stream_xor_instance(Unwrap(nonce),
                                                               Unwrap(p.key)))
                          ELSE p._remote_xor],
            id, feed.discoveryKey)

\* _onopen taking every remote Feed for the first one
OnopenFeed_Every(p, id, r) ==
    IF ~r.ok THEN _bad_feed(p)
    ELSE OnopenFirst(
             _same_key([p EXCEPT !.remote_discovery_key = Some(r.msg.discoveryKey)]),
             id, r.msg)

\* _onopen once decode_feed returned r
OnopenFeed(p, id, r) ==
    IF ~r.ok THEN _bad_feed(p)
    ELSE IF IsSome(p.remote_discovery_key) THEN OnopenStore(p, id, r.msg.discoveryKey)
    ELSE OnopenFirst(
             _same_key([p EXCEPT !.remote_discovery_key = Some(r.msg.discoveryKey)]),
             id, r.msg)

\* Protocol::_onopen(id, bytes, start, end); the `feed` event is not emitted
_onopen(p, id, bytes, start, end) ==
    IF start > end \/ end > Len(bytes) THEN Panic(p, "slice index out of range")
    ELSE OnopenFeed(p, id, decode_feed(bytes, start, end))

\* Vec::resize(n, None) when the table is shorter than n
Resize(feeds, n) ==
    IF Len(feeds) >= n THEN feeds
    ELSE [i \in 1..n |-> IF i <= Len(feeds) THEN feeds[i] ELSE None]

\* Protocol::_onmessage(bytes, start, end)
_onmessage(p, bytes, start, end) ==
    IF end - start < 2 THEN p
    ELSE
    LET hv == decode_var(Slice(bytes, start, Len(bytes)))
        value == hv[1] % 65536
        start2 == start + hv[2]
    IN  IF value = 65535 THEN destroy(p, "Remote sent invalid header")
        ELSE IF decode_header_panics(value) THEN Panic(p, "decode_header: bad type or channel")
        ELSE
        LET h == decode_header(value)
            id == h.channel
            p1 == [p EXCEPT !._remote_feeds = Resize(p._remote_feeds, id + 1),
                            !.dispatched = Append(p.dispatched,
                                [channel |-> id, type |-> h.type,
                                 payload |-> Slice(bytes, start2, end)])]
        IN  IF Len(p1._remote_feeds) # id + 1
            THEN Panic(p1, "assert_eq: _remote_feeds.len() == id + 1")
            ELSE
            LET ch == p1._remote_feeds[id + 1]
            IN  IF h.type = T_Feed
                THEN LET p2 == IF IsSome(ch) THEN Feed_onclose(p1, Unwrap(ch)) ELSE p1
                     IN  IF Running(p2) THEN _onopen(p2, id, bytes, start2, end) ELSE p2
                ELSE IF IsSome(ch)
                THEN IF h.type = T_Extension THEN Feed_onextension(p1, Unwrap(ch))
                     ELSE Feed_onmessage(p1, Unwrap(ch), h.type, bytes, start2, end)
                ELSE _bad_feed(p1)

\* the last byte of a length varint was read, with a length of 0 taken for
\* one that is too big
LengthRead_NoEmpty(p, start) ==
    LET length == decode_var(p._length)[1]
        p2 == [p EXCEPT !._missing = length, !._pointer = 0]
    IN  IF length > MAX_MESSAGE \/ length = 0 THEN _too_big(p2)
        ELSE [p2 EXCEPT !.ret = start]

\* _parse_length once the last byte of the length varint is stored in
\* _length and start points behind it (lines 692-700)
LengthRead(p, start) ==
    LET length == decode_var(p._length)[1]
        p2 == [p EXCEPT !._missing = length, !._pointer = 0]
    IN  IF length > MAX_MESSAGE THEN _too_big(p2)
        ELSE [p2 EXCEPT !.ret = start]

\* Protocol::_parse_length(bytes, start): the new start is left in ret
RECURSIVE _parse_length(_, _, _)
_parse_length(p, bytes, start) ==
    IF ~(p._missing = 0 /\ start < Len(bytes)) THEN [p EXCEPT !.ret = start]
    ELSE
    LET byte == At(bytes, start)
        p1 == [p EXCEPT !._length[p._pointer + 1] = byte, !._pointer = p._pointer + 1]
    IN  IF byte < 128 THEN LengthRead(p1, start + 1)
        ELSE IF p1._pointer >= VARINT_8M_ENCODING_LENGTH THEN _too_big(p1)
        ELSE _parse_length(p1, bytes, start + 1)

\* the end passed to _onmessage for a frame completed in the parser buffer:
\* the length of the chunk that completed it
BufferedEnd(buf, bytes) == Len(bytes)

\* The parser buffer vec![0; _missing]: its length and the bytes copied into
\* it so far; the bytes from _pointer on are still zero.
NewBuf(missing) == [len |-> missing, data |-> <<>>]

\* Protocol::_parse_message(bytes, start): the new start is left in ret
_parse_message(p, bytes, start) ==
    LET end == start + p._missing
    IN  IF end <= Len(bytes)
        THEN LET buffered == IsSome(p._buf)
                 tail == Slice(bytes, start, Len(bytes))
                 fits == ~buffered \/ Unwrap(p._buf).len - p._pointer = Len(tail)
                 msgbytes == IF buffered THEN Unwrap(p._buf).data \o tail ELSE bytes
                 p1 == [p EXCEPT !._buf = None, !._missing = 0, !._pointer = 0,
                                 !._needs_key = IF p.encrypted /\ IsNone(p.key)
                                                THEN TRUE ELSE p._needs_key]
                 p2 == IF buffered
                       THEN _onmessage(p1, msgbytes, 0, BufferedEnd(msgbytes, bytes))
                       ELSE _onmessage(p1, msgbytes, start, end)
             IN  IF ~fits
                 THEN Panic([p EXCEPT !._buf = None], "copy_from_slice: length mismatch")
                 ELSE [p2 EXCEPT !.ret = end]
        ELSE LET buf == IF IsNone(p._buf) THEN NewBuf(p._missing) ELSE Unwrap(p._buf)
                 pointer == IF IsNone(p._buf) THEN 0 ELSE p._pointer
                 rem == Len(bytes) - start
             IN  [p EXCEPT !._buf = Some([buf EXCEPT !.data =
                                              buf.data \o Slice(bytes, start, Len(bytes))]),
                           !._pointer = pointer + rem,
                           !._missing = p._missing - rem,
                           !.ret = Len(bytes)]

\* Protocol::_parse(bytes, start) and its while loop
RECURSIVE _parse(_, _, _)
RECURSIVE ParseLoop(_, _, _, _)
RECURSIVE ParseNext(_, _, _)
\* the while loop of _parse without the test of destroyed
ParseLoop_Undead(p, bytes, start, decrypted) ==
    IF ~Running(p) \/ ~(start < Len(bytes)) THEN p
    ELSE ParseNext(IF p._missing > 0 THEN _parse_message(p, bytes, start)
                   ELSE _parse_length(p, bytes, start),
                   bytes, decrypted)

ParseLoop(p, bytes, start, decrypted) ==
    IF ~Running(p) \/ ~(start < Len(bytes) /\ ~p.destroyed) THEN p
    ELSE ParseNext(IF p._missing > 0 THEN _parse_message(p, bytes, start)
                   ELSE _parse_length(p, bytes, start),
                   bytes, decrypted)

\* the loop body after the parse step: the pause for the key, the restart
\* once the remote cipher exists, or the next iteration
ParseNext(p, bytes, decrypted) ==
    IF ~Running(p) THEN p
    ELSE IF p._needs_key THEN [p EXCEPT !._data = Some(bytes), !._start = p.ret]
    ELSE IF ~decrypted /\ IsSome(p._remote_xor) THEN _parse(p, bytes, p.ret)
    ELSE ParseLoop(p, bytes, p.ret, decrypted)

_parse(p, bytes0, start0) ==
    LET decrypted == IsSome(p._remote_xor)
        bytes1 == IF start0 > 0 THEN Slice(bytes0, start0, Len(bytes0)) ELSE bytes0
        bytes2 == IF decrypted THEN XorOut(Unwrap(p._remote_xor), bytes1) ELSE bytes1
        p1 == IF decrypted
              THEN [p EXCEPT !._remote_xor = Some(XorAdvance(Unwrap(p._remote_xor), bytes1))]
              ELSE p
    IN  ParseLoop(p1, bytes2, 0, decrypted)

\* Protocol::_write(bytes)
_write(p, bytes) == _parse([p EXCEPT !._remote_keep_alive = 0], bytes, 0)

\* Protocol::_resume
_resume(p) ==
    IF IsSome(p._data)
    THEN _parse([p EXCEPT !._data = None, !._start = 0], Unwrap(p._data), p._start)
    ELSE p

\* encode_feed(feed, channel)
encode_feed(msg, channel) == write_msg(channel, msg)

\* Protocol::feed from the encoding of the Feed frame on (lines 367-401)
FeedSend(p, dk, msg, first) ==
    IF ~Running(p) THEN p
    ELSE
    LET id == Unwrap(p.chan[dk].id)
        box == encode_feed(msg, id)
        useXor == IsNone(msg.nonce) /\ p.encrypted
    IN  IF id >= MAX_CHANNELS THEN Panic(p, "assert: channel < MAX_CHANNELS")
        ELSE IF useXor /\ IsNone(p._xor) THEN Panic(p, "unwrap: _xor is None")
        ELSE
        LET p1 == IF useXor
                  THEN [p EXCEPT !._xor = Some(XorAdvance(Unwrap(p._xor), box))]
                  ELSE p
            out == IF useXor THEN XorOut(Unwrap(p._xor), box) ELSE box
            p2 == push([p1 EXCEPT !._keep_alive = 0], out, box)
        IN  IF p2.destroyed THEN [p2 EXCEPT !.result = None]
            ELSE
            LET p3 == IF first
                      THEN Feed_handshake(p2, dk,
                               HandshakeMsg(Some(p2.id), Some(p2.live), p2.user_data,
                                            p2.extensions, Some(p2.ack)))
                      ELSE p2
            IN  IF ~Running(p3) THEN p3
                ELSE IF IsNone(p3.chan[dk]._buffer) THEN Panic(p3, "unwrap: _buffer is None")
                ELSE IF Unwrap(p3.chan[dk]._buffer) # <<>> THEN Feed_resume(p3, dk)
                ELSE [p3 EXCEPT !.chan[dk]._buffer = None, !.result = Some(dk)]

\* the branch of the first local channel without its last step, which
\* clears _needs_key and resumes the parser
FeedFirst_NoResume(p, key, dk, nonce) ==
    LET p1 == _same_key([p EXCEPT !.key = Some(key), !.discovery_key = Some(dk)])
    IN  IF ~Running(p1) THEN p1
        ELSE IF ~p1.flag THEN [p1 EXCEPT !.result = None]
        ELSE
        LET p2 == IF p1.encrypted
                  THEN [p1 EXCEPT
                          !._nonce = Some(nonce),
                          !._xor = Some(crypto_stream_xor_instance(nonce, key)),
                          !._remote_xor =
                              IF IsSome(p1._remote_nonce)
                              THEN Some(crypto_stream_xor_instance(
                                            Unwrap(p1._remote_nonce), key))
                              ELSE p1._remote_xor]
                  ELSE p1
            msg == FeedMsg(dk, IF p1.encrypted THEN Some(nonce) ELSE None)
        IN  FeedSend(p2, dk, msg, TRUE)

\* the branch of the first local channel without the construction of the
\* remote cipher from a remote nonce that arrived earlier
FeedFirst_NoRemote(p, key, dk, nonce) ==
    LET p1 == _same_key([p EXCEPT !.key = Some(key), !.discovery_key = Some(dk)])
    IN  IF ~Running(p1) THEN p1
        ELSE IF ~p1.flag THEN [p1 EXCEPT !.result = None]
        ELSE
        LET p2 == IF p1.encrypted
                  THEN [p1 EXCEPT
                          !._nonce = Some(nonce),
                          !._xor = Some(crypto_stream_xor_instance(nonce, key))]
                  ELSE p1
            msg == FeedMsg(dk, IF p1.encrypted THEN Some(nonce) ELSE None)
            p3 == IF p2._needs_key THEN _resume([p2 EXCEPT !._needs_key = FALSE]) ELSE p2
        IN  FeedSend(p3, dk, msg, TRUE)

\* Protocol::feed, the branch of the first local channel (lines 326-365)
FeedFirst(p, key, dk, nonce) ==
    LET p1 == _same_key([p EXCEPT !.key = Some(key), !.discovery_key = Some(dk)])
    IN  IF ~Running(p1) THEN p1
        ELSE IF ~p1.flag THEN [p1 EXCEPT !.result = None]
        ELSE
        LET p2 == IF p1.encrypted
                  THEN [p1 EXCEPT
                          !._nonce = Some(nonce),
                          !._xor = Some(crypto_stream_xor_instance(nonce, key)),
                          !._remote_xor =
                              IF IsSome(p1._remote_nonce)
                              THEN Some(crypto_stream_xor_instance(
                                           Unwrap(p1._remote_nonce), key))
                              ELSE p1._remote_xor]
                  ELSE p1
            msg == FeedMsg(dk, IF p1.encrypted THEN Some(nonce) ELSE None)
            p3 == IF p2._needs_key THEN _resume([p2 EXCEPT !._needs_key = FALSE]) ELSE p2
        IN  FeedSend(p3, dk, msg, TRUE)

\* Protocol::feed without the early return for a channel that has a local
\* id: every call numbers the channel anew and announces it again
feed_Renumber(p, key, nonce) ==
    IF p.destroyed THEN [p EXCEPT !.result = None]
    ELSE
    LET dk == discovery_key(key)
        p0 == _feed(p, dk)
    IN  IF Len(p0._local_feeds) >= max_feeds THEN _too_many_feeds(p0)
        ELSE
        LET id == Len(p0._local_feeds)
            p1 == [p0 EXCEPT !.chan[dk].id = Some(id % 256),
                             !.chan[dk].key = Some(key),
                             !.chan[dk].discovery_key = Some(dk),
                             !._local_feeds = Append(p0._local_feeds, dk)]
        IN  IF IsNone(p1.key) THEN FeedFirst(p1, key, dk, nonce)
            ELSE FeedSend(p1, dk, FeedMsg(dk, None), FALSE)

\* Protocol::feed(key, opts) with opts.discovery_key absent; nonce is the
\* value Nonce::new() draws; the returned channel is left in result
feed(p, key, nonce) ==
    IF p.destroyed THEN [p EXCEPT !.result = None]
    ELSE
    LET dk == discovery_key(key)
        p0 == _feed(p, dk)
    IN  IF IsSome(p0.chan[dk].id) THEN [p0 EXCEPT !.result = Some(dk)]
        ELSE IF Len(p0._local_feeds) >= max_feeds THEN _too_many_feeds(p0)
        ELSE
        LET id == Len(p0._local_feeds)
            p1 == [p0 EXCEPT !.chan[dk].id = Some(id % 256),
                             !.chan[dk].key = Some(key),
                             !.chan[dk].discovery_key = Some(dk),
                             !._local_feeds = Append(p0._local_feeds, dk)]
        IN  IF IsNone(p1.key) THEN FeedFirst(p1, key, dk, nonce)
            ELSE FeedSend(p1, dk, FeedMsg(dk, None), FALSE)

\* ------------------------------------------------------------------------
\* The environment
\* ------------------------------------------------------------------------

VARIABLES
    ep,       \* the two endpoints a and b
    remote,   \* what the scripted remote does: [enc, key, ch, n, ud]
    script,   \* the frames the scripted remote sends to a
    recv,     \* recv[e]: how many bytes of its inbound stream e was given
    writes,   \* writes[e]: how many write calls delivered them
    fedAt,    \* fedAt[e]: recv[e] when e first called feed, -1 before
    base,     \* endpoint a when the chunked run of writes began
    unit      \* the values of a codec or cipher function applied on its own

vars == <<ep, remote, script, recv, writes, fedAt, base, unit>>

Endpoints == {"a", "b"}
Peer(e) == IF e = "a" THEN "b" ELSE "a"

\* the identity and options of the scripted remote
RemoteId == IdOf(98)
RemoteNonce == Nonce(1)
RemoteHandshake(r) ==
    HandshakeMsg(Some(RemoteId), Some(FALSE),
                 IF r.ud > 0 THEN Some(Rep(r.ud, 117)) ELSE None, <<>>, Some(FALSE))
\* the i-th channel message of the scripted remote
RemoteInfo(i) == InfoMsg(Some(i % 2 = 1), Some((i \div 2) % 2 = 1))
\* the key of the second channel of a remote whose first key is key
OtherKey(key) == IF key = 1 THEN 2 ELSE 1

\* the frames after the first, run through the remote's cipher
RECURSIVE EncryptFrames(_, _)
EncryptFrames(xor, frames) ==
    IF Len(frames) = 0 THEN <<>>
    ELSE <<XorOut(xor, Head(frames))>>
             \o EncryptFrames(XorAdvance(xor, Head(frames)), Tail(frames))

\* What a remote r that opens r.key first sends: its Feed (with its nonce
\* when encrypted), its Handshake, then, on channel r.ch (0: the first
\* channel; 1: a second channel it opens for the other key), r.n messages.
RemotePlain(r) ==
    <<write_msg(0, FeedMsg(discovery_key(r.key),
                           IF r.enc THEN Some(RemoteNonce) ELSE None)),
      write_msg(0, RemoteHandshake(r))>>
    \o (IF r.ch = 1
        THEN <<write_msg(1, FeedMsg(discovery_key(OtherKey(r.key)), None))>>
        ELSE <<>>)
    \o [i \in 1..r.n |-> write_msg(r.ch, RemoteInfo(i))]

\* the same frames as they travel
Encrypted(r, frames) ==
    IF r.enc
    THEN <<Head(frames)>>
             \o EncryptFrames(crypto_stream_xor_instance(RemoteNonce, r.key), Tail(frames))
    ELSE frames

RemoteScript(r) == Encrypted(r, RemotePlain(r))

\* the frames e is to receive: the scripted ones, or what its peer pushed
Frames(e) == IF Len(script) > 0 /\ e = "a" THEN script ELSE ep[Peer(e)].sent
Inbound(e) == Concat(Frames(e))

\* the frame that starts at byte offset off of a list of frames
RECURSIVE FrameAt(_, _)
FrameAt(frames, off) ==
    IF Len(frames) = 0 THEN <<>>
    ELSE IF off = 0 THEN Head(frames)
    ELSE FrameAt(Tail(frames), off - Len(Head(frames)))

\* the options the endpoints are constructed with (the handshake-options
\* test of tests/mod.rs)
UserData == <<101, 101, 97, 97>>
OptsOf(e, enc) ==
    IF e = "a"
    THEN [DefaultOpts EXCEPT !.id = Some(IdOf(97)), !.live = Some(TRUE),
                             !.user_data = Some(UserData), !.encrypted = Some(enc)]
    ELSE [DefaultOpts EXCEPT !.id = Some(IdOf(98)), !.live = Some(FALSE),
                             !.ack = Some(TRUE), !.encrypted = Some(enc)]

NoRemote == [enc |-> FALSE, key |-> 1, ch |-> 0, n |-> 0, ud |-> 0]

InitEndpoints(enc) ==
    /\ ep = [e \in Endpoints |-> ProtocolNew(OptsOf(e, enc), IdOf(0))]
    /\ recv = [e \in Endpoints |-> 0]
    /\ writes = [e \in Endpoints |-> 0]
    /\ fedAt = [e \in Endpoints |-> -1]
    /\ base = ProtocolNew(OptsOf("a", enc), IdOf(0))
    /\ unit = None

\* ------------------------------------------------------------------------
\* The operations
\* ------------------------------------------------------------------------

\* the application calls feed(key)
FeedCall(e, key) ==
    /\ Running(ep[e])
    /\ \E nonce \in Nonces:
          ep' = [ep EXCEPT ![e] = feed(ep[e], key, nonce)]
    /\ fedAt' = IF fedAt[e] < 0 THEN [fedAt EXCEPT ![e] = recv[e]] ELSE fedAt
    /\ UNCHANGED <<remote, script, recv, writes, base, unit>>

\* the crate calls data() on a channel that feed returned
DataCall(e, key) ==
    /\ Running(ep[e])
    /\ discovery_key(key) \in ep[e]._feeds
    /\ IsSome(ep[e].chan[discovery_key(key)].id)
    /\ Len(ep[e].sent) < MaxSent
    /\ ep' = [ep EXCEPT ![e] = Feed_data(ep[e], discovery_key(key),
                                         DataMsg(42, Some(<<104, 105>>)))]
    /\ UNCHANGED <<remote, script, recv, writes, fedAt, base, unit>>

\* the transport hands e the next frame as one write
WriteFrame(e) ==
    /\ Running(ep[e])
    /\ recv[e] < Len(Inbound(e))
    /\ ep' = [ep EXCEPT ![e] = _write(ep[e], FrameAt(Frames(e), recv[e]))]
    /\ recv' = [recv EXCEPT ![e] = recv[e] + Len(FrameAt(Frames(e), recv[e]))]
    /\ writes' = [writes EXCEPT ![e] = writes[e] + 1]
    /\ UNCHANGED <<remote, script, fedAt, base, unit>>

\* the transport hands e the next n bytes as one write
WriteChunk(e, n) ==
    /\ Running(ep[e])
    /\ recv[e] + n <= Len(Inbound(e))
    /\ ep' = [ep EXCEPT ![e] = _write(ep[e], SubSeq(Inbound(e), recv[e] + 1, recv[e] + n))]
    /\ recv' = [recv EXCEPT ![e] = recv[e] + n]
    /\ writes' = [writes EXCEPT ![e] = writes[e] + 1]
    /\ UNCHANGED <<remote, script, fedAt, base, unit>>

\* feed(key) before the first write; the run of writes starts from there
ChunkFeed(key) ==
    /\ Running(ep["a"])
    /\ recv["a"] = 0
    /\ ep["a"]._local_feeds = <<>>
    /\ \E nonce \in Nonces:
          ep' = [ep EXCEPT !["a"] = feed(ep["a"], key, nonce)]
    /\ base' = ep'["a"]
    /\ UNCHANGED <<remote, script, recv, writes, fedAt, unit>>

\* ------------------------------------------------------------------------
\* Spec: endpoint a against a scripted remote, one write per frame
\* ------------------------------------------------------------------------

Init ==
    \E enc \in BOOLEAN, key \in Keys, ch \in {0, 1}:
        /\ remote = [enc |-> enc, key |-> key, ch |-> ch, n |-> MaxMsgs, ud |-> 0]
        /\ script = RemoteScript(remote)
        /\ InitEndpoints(enc)

Next ==
    \/ \E key \in Keys: FeedCall("a", key)
    \/ WriteFrame("a")

Spec == Init /\ [][Next]_vars

\* ------------------------------------------------------------------------
\* SendSpec: endpoint a opening channels and sending on them, against a
\* scripted remote that sends SendMsgs messages
\* ------------------------------------------------------------------------

SendInit ==
    \E enc \in BOOLEAN, key \in Keys, ch \in {0, 1}:
        /\ remote = [enc |-> enc, key |-> key, ch |-> ch, n |-> SendMsgs, ud |-> 0]
        /\ script = RemoteScript(remote)
        /\ InitEndpoints(enc)

SendNext ==
    \/ \E key \in Keys: FeedCall("a", key)
    \/ \E key \in Keys: DataCall("a", key)
    \/ WriteFrame("a")

SendSpec == SendInit /\ [][SendNext]_vars

\* ------------------------------------------------------------------------
\* ChunkSpec: endpoint a against a scripted remote, the stream cut anywhere
\* ------------------------------------------------------------------------

ChunkInit ==
    \E enc \in BOOLEAN, key \in Keys:
        /\ remote = [enc |-> enc, key |-> key, ch |-> 0, n |-> ChunkMsgs,
                     ud |-> ChunkUserData]
        /\ script = RemoteScript(remote)
        /\ InitEndpoints(enc)

ChunkNext ==
    \/ \E key \in Keys: ChunkFeed(key)
    \/ \E n \in 1..(Len(Inbound("a")) - recv["a"]):
          writes["a"] < MaxWrites /\ WriteChunk("a", n)

ChunkSpec == ChunkInit /\ [][ChunkNext]_vars

\* ------------------------------------------------------------------------
\* PairSpec: endpoints a and b, each calling feed once, connected back to
\* back; every pushed frame reaches the peer as one write
\* ------------------------------------------------------------------------

PairInit ==
    \E enc \in BOOLEAN:
        /\ remote = NoRemote
        /\ script = <<>>
        /\ InitEndpoints(enc)

PairNext ==
    \/ \E e \in Endpoints, key \in Keys:
          ep[e]._local_feeds = <<>> /\ FeedCall(e, key)
    \/ \E e \in Endpoints: WriteFrame(e)

PairSpec == PairInit /\ [][PairNext]_vars

\* ------------------------------------------------------------------------
\* FaultSpec: endpoint a against a remote that breaks the protocol in one
\* of the ways of Faults, one write per frame
\* ------------------------------------------------------------------------

\* "nononce": the first Feed carries no nonce; "first_ffff": the very first
\* frame has the header 0xFFFF; the others follow a regular Feed and
\* Handshake: "orphan" a message on a channel the remote never opened,
\* "hs2" a second Handshake with other values, "ffff" the header 0xFFFF,
\* "badtype" the type tag 10, "biglen" the length prefix 8*1024*1024 + 1,
\* "len5" a length varint without a final byte among its first four,
\* "maxlen" the length prefix 8*1024*1024 and the first bytes of a payload,
\* "refeed" a second Feed on channel 0, for the other key.  A first Feed
\* that decode_feed rejects: "badfeed" a payload cut off inside its field,
\* "dk31" a discovery key of 31 bytes, "nonce23" a nonce of 23 bytes.
Faults ==
    {"nononce", "first_ffff", "orphan", "hs2", "ffff", "badtype", "biglen",
     "len5", "maxlen", "refeed", "badfeed", "dk31", "nonce23"}

\* the faults that replace the remote's first Feed
FirstFrameFaults == {"nononce", "first_ffff", "badfeed", "dk31", "nonce23"}

\* a Feed frame on channel 0 whose payload announces 32 bytes and holds 2
CutFeedFrame == <<5, 0, 10, 32, 1, 2>>

\* the second Handshake of the "hs2" remote
SecondHandshake ==
    HandshakeMsg(Some(IdOf(99)), Some(TRUE), Some(<<120>>), <<>>, Some(TRUE))

\* a frame whose header varint decodes to 0xFFFF, with a one-byte payload
FfffFrame == <<4, 255, 255, 3, 0>>
\* a frame on channel 0 with the type tag 10, with a one-byte payload
BadTypeFrame == <<2, 10, 0>>
\* the length prefix of 8*1024*1024 + 1
BigLen == encode_var(MAX_MESSAGE + 1)
\* five bytes of a length varint, the first four with the continuation bit
Len5 == <<255, 255, 255, 255, 1>>
\* the length prefix of 8*1024*1024
MaxLen == encode_var(MAX_MESSAGE)

\* the frames of the faulty remote r, before its cipher
FaultPlain(r) ==
    LET feed0 == write_msg(0, FeedMsg(discovery_key(r.key),
                                      IF r.enc /\ r.fault # "nononce"
                                      THEN Some(RemoteNonce) ELSE None))
        hs == write_msg(0, RemoteHandshake(r))
        info == write_msg(0, RemoteInfo(1))
    IN  CASE r.fault = "nononce" -> <<feed0, hs, info>>
          [] r.fault = "refeed" ->
                 <<feed0, hs, write_msg(0, FeedMsg(discovery_key(OtherKey(r.key)), None)),
                   info>>
          [] r.fault = "badfeed" -> <<CutFeedFrame, hs, info>>
          [] r.fault = "dk31" ->
                 <<write_msg(0, FeedMsg(SubSeq(discovery_key(r.key), 1, DK_LEN - 1),
                                        IF r.enc THEN Some(RemoteNonce) ELSE None)),
                   hs, info>>
          [] r.fault = "nonce23" ->
                 <<write_msg(0, FeedMsg(discovery_key(r.key),
                                        Some(SubSeq(RemoteNonce, 1, NONCE_LEN - 1)))),
                   hs, info>>
          [] r.fault = "first_ffff" -> <<FfffFrame, feed0, hs>>
          [] r.fault = "orphan" -> <<feed0, hs, write_msg(1, RemoteInfo(1)), info>>
          [] r.fault = "hs2" -> <<feed0, hs, write_msg(0, SecondHandshake), info>>
          [] r.fault = "ffff" -> <<feed0, hs, FfffFrame, info>>
          [] r.fault = "badtype" -> <<feed0, hs, BadTypeFrame, info>>
          [] r.fault = "biglen" -> <<feed0, hs, BigLen, info>>
          [] r.fault = "len5" -> <<feed0, hs, Len5, info>>
          [] OTHER -> <<feed0, hs, MaxLen, info>>

\* the same frames as they travel: a remote that sent no nonce, or no Feed
\* yet, has no cipher
FaultScript(r) ==
    IF r.fault \in FirstFrameFaults THEN FaultPlain(r)
    ELSE Encrypted(r, FaultPlain(r))

FaultInit ==
    \E enc \in BOOLEAN, key \in Keys, fault \in Faults:
        /\ remote = [enc |-> enc, key |-> key, ch |-> 0, n |-> 1, ud |-> 0,
                     fault |-> fault]
        /\ script = FaultScript(remote)
        /\ InitEndpoints(enc)

FaultNext ==
    \/ \E key \in Keys: FeedCall("a", key)
    \/ WriteFrame("a")

FaultSpec == FaultInit /\ [][FaultNext]_vars

\* ------------------------------------------------------------------------
\* ExtSpec: endpoint a constructed with a list of extension names, against
\* a remote whose Handshake carries a list of its own
\* ------------------------------------------------------------------------

\* the extension names "a", "b", "c"
ExtNames == {<<97>>, <<98>>, <<99>>}
\* the lists of distinct extension names, in every order
ExtLists ==
    UNION {{l \in [1..n -> ExtNames] : \A i, j \in 1..n: l[i] = l[j] => i = j} : n \in 0..3}

\* the Handshake of the remote r, with its extension list
ExtHandshake(r) ==
    HandshakeMsg(Some(RemoteId), Some(FALSE), None, r.ext, Some(FALSE))

\* the frames of the remote r: its Feed, its Handshake, one message
ExtPlain(r) ==
    <<write_msg(0, FeedMsg(discovery_key(r.key),
                           IF r.enc THEN Some(RemoteNonce) ELSE None)),
      write_msg(0, ExtHandshake(r)),
      write_msg(0, RemoteInfo(1))>>

\* Protocol::new with opts.extensions = Some(local)
ExtEndpoint(enc, local) ==
    ProtocolNew([OptsOf("a", enc) EXCEPT !.extensions = Some(local)], IdOf(0))

ExtInit ==
    \E enc \in BOOLEAN, local \in ExtLists, ext \in ExtLists:
        /\ remote = [enc |-> enc, key |-> 1, ch |-> 0, n |-> 1, ud |-> 0, ext |-> ext]
        /\ script = Encrypted(remote, ExtPlain(remote))
        /\ ep = [e \in Endpoints |->
                    IF e = "a" THEN ExtEndpoint(enc, local)
                    ELSE ProtocolNew(OptsOf(e, enc), IdOf(0))]
        /\ recv = [e \in Endpoints |-> 0]
        /\ writes = [e \in Endpoints |-> 0]
        /\ fedAt = [e \in Endpoints |-> -1]
        /\ base = ExtEndpoint(enc, local)
        /\ unit = None

ExtNext ==
    \/ FeedCall("a", 1)
    \/ WriteFrame("a")

ExtSpec == ExtInit /\ [][ExtNext]_vars

\* ------------------------------------------------------------------------
\* The codec and cipher functions applied on their own, as the unit tests
\* of wire_format.rs and crypto_stream.rs apply them: no endpoint takes part
\* ------------------------------------------------------------------------

UnitInit(u) ==
    /\ remote = NoRemote
    /\ script = <<>>
    /\ ep = [e \in Endpoints |-> ProtocolNew(OptsOf(e, FALSE), IdOf(0))]
    /\ recv = [e \in Endpoints |-> 0]
    /\ writes = [e \in Endpoints |-> 0]
    /\ fedAt = [e \in Endpoints |-> -1]
    /\ base = ProtocolNew(OptsOf("a", FALSE), IdOf(0))
    /\ unit = u

UnitStep(u) ==
    /\ unit' = u
    /\ UNCHANGED <<ep, remote, script, recv, writes, fedAt, base>>

\* the values of MessageType and of Channel(u8)
MessageTypes == {t \in 0..15 : ValidType(t)}
ChannelValues == 0..255

\* ------------------------------------------------------------------------
\* HeaderSpec: encode_header, then decode_header on its result
\* ------------------------------------------------------------------------

HeaderInit ==
    \E c \in ChannelValues, t \in MessageTypes:
        UnitInit([stage |-> "header", channel |-> c, type |-> t,
                  header |-> None, panic |-> FALSE, out |-> None])

\* encode_header(Header { channel, message_type })
EncodeHeader ==
    /\ unit.stage = "header"
    /\ UnitStep(IF unit.channel >= MAX_CHANNELS
                THEN [unit EXCEPT !.stage = "encoded", !.panic = TRUE]
                ELSE [unit EXCEPT !.stage = "encoded",
                                  !.header = Some(encode_header(unit.channel, unit.type))])

\* decode_header(header)
DecodeHeader ==
    /\ unit.stage = "encoded"
    /\ ~unit.panic
    /\ UnitStep(IF decode_header_panics(Unwrap(unit.header))
                THEN [unit EXCEPT !.stage = "decoded", !.panic = TRUE]
                ELSE [unit EXCEPT !.stage = "decoded",
                                  !.out = Some(decode_header(Unwrap(unit.header)))])

HeaderNext == EncodeHeader \/ DecodeHeader

HeaderSpec == HeaderInit /\ [][HeaderNext]_vars

\* ------------------------------------------------------------------------
\* CodecSpec: write_msg, then read_msg_from_reader on the bytes it produced
\* ------------------------------------------------------------------------

\* the raw fields start = 1 and length = 2 of Unhave, Want and Unwant
Range(type, start, length) == RawMsg(type, <<<<1, 0, start>>, <<2, 0, length>>>>)

\* messages of the eleven types, with their optional fields set and unset
CodecMessages ==
    {FeedMsg(discovery_key(1), None), FeedMsg(discovery_key(2), Some(Nonce(1))),
     HandshakeMsg(None, None, None, <<>>, None),
     HandshakeMsg(Some(IdOf(97)), Some(TRUE), Some(UserData), <<<<97>>, <<98, 99>>>>,
                  Some(FALSE)),
     InfoMsg(None, None), InfoMsg(Some(TRUE), Some(FALSE)),
     RawMsg(3, <<<<1, 0, 7>>>>),
     RawMsg(3, <<<<1, 0, 300>>, <<2, 0, 2>>, <<3, 2, <<1, 2, 3>>>>, <<4, 0, 1>>>>),
     Range(4, 0, 1), Range(5, 128, 16384), Range(6, 5, 0),
     RawMsg(5, <<>>),
     RawMsg(7, <<<<1, 0, 9>>>>),
     RawMsg(7, <<<<1, 0, 9>>, <<2, 0, 1000>>, <<3, 0, 1>>, <<4, 0, 3>>>>),
     RawMsg(8, <<<<1, 0, 9>>>>),
     RawMsg(8, <<<<1, 0, 9>>, <<2, 0, 1000>>, <<3, 0, 0>>>>),
     RawMsg(T_Data, <<<<1, 0, 42>>>>),
     RawMsg(T_Data, <<<<1, 0, 42>>, <<2, 2, <<104, 105>>>>, <<4, 2, <<1, 2>>>>>>),
     ExtensionMsg(<<>>), ExtensionMsg(<<0, 120>>)}

CodecInit ==
    \E c \in ChannelValues, m \in CodecMessages:
        UnitInit([stage |-> "msg", channel |-> c, msg |-> m,
                  bytes |-> None, panic |-> FALSE, out |-> None])

\* write_msg(channel, &msg)
WriteMsg ==
    /\ unit.stage = "msg"
    /\ UnitStep(IF write_msg_panics(unit.channel, unit.msg)
                THEN [unit EXCEPT !.stage = "written", !.panic = TRUE]
                ELSE [unit EXCEPT !.stage = "written",
                                  !.bytes = Some(write_msg(unit.channel, unit.msg))])

\* read_msg(bytes)
ReadMsg ==
    /\ unit.stage = "written"
    /\ ~unit.panic
    /\ LET r == read_msg_from_reader(Unwrap(unit.bytes))
       IN  UnitStep([unit EXCEPT !.stage = "read", !.panic = r.panic, !.out = Some(r)])

CodecNext == WriteMsg \/ ReadMsg

CodecSpec == CodecInit /\ [][CodecNext]_vars

\* ------------------------------------------------------------------------
\* CipherSpec: an input encrypted by one Xor instance in consecutive update
\* calls, the output decrypted by a second instance of the same (nonce,
\* key), each with its own split (crypto_stream_3)
\* ------------------------------------------------------------------------

CipherBytes == {0, 104, 255}
CipherInputs == UNION {[1..n -> CipherBytes] : n \in 0..CipherLen}

CipherInit ==
    \E nonce \in Nonces, key \in Keys, input \in CipherInputs:
        UnitInit([nonce |-> nonce, key |-> key, input |-> input,
                  xor |-> crypto_stream_xor_instance(nonce, key), out |-> <<>>,
                  xor2 |-> crypto_stream_xor_instance(nonce, key), back |-> <<>>,
                  calls |-> <<0, 0>>])

\* xor.update(chunk, output) on the next n bytes of the input
Update(n) ==
    /\ Len(unit.out) + n <= Len(unit.input)
    /\ LET chunk == SubSeq(unit.input, Len(unit.out) + 1, Len(unit.out) + n)
       IN  UnitStep([unit EXCEPT !.out = unit.out \o XorOut(unit.xor, chunk),
                                 !.xor = XorAdvance(unit.xor, chunk),
                                 !.calls[1] = @ + 1])

\* xor2.update(chunk, output) on the next n bytes of what the first
\* instance produced
Decrypt(n) ==
    /\ Len(unit.back) + n <= Len(unit.out)
    /\ LET chunk == SubSeq(unit.out, Len(unit.back) + 1, Len(unit.back) + n)
       IN  UnitStep([unit EXCEPT !.back = unit.back \o XorOut(unit.xor2, chunk),
                                 !.xor2 = XorAdvance(unit.xor2, chunk),
                                 !.calls[2] = @ + 1])

CipherNext ==
    \/ \E n \in 1..CipherLen: Update(n)
    \/ \E n \in 1..CipherLen: Decrypt(n)

CipherSpec == CipherInit /\ [][CipherNext]_vars

\* ------------------------------------------------------------------------
\* ManySpec: endpoint a opening one channel after another, for ManyKeys
\* distinct keys taken in ascending or in descending order, and calling
\* feed again for keys it has opened
\* ------------------------------------------------------------------------

\* the key of the next channel to open
NextKey(p, up) == IF up THEN Len(p._local_feeds) + 1 ELSE ManyKeys - Len(p._local_feeds)
\* the key of the channel opened first
FirstKey(up) == IF up THEN 1 ELSE ManyKeys

\* feed for a key that has no channel yet
OpenNext(e) ==
    /\ Len(ep[e]._local_feeds) < ManyKeys
    /\ FeedCall(e, NextKey(ep[e], remote.up))

\* feed for the key opened first or for the key opened last
Reopen(e) ==
    /\ Len(ep[e]._local_feeds) > 0
    /\ \E key \in {FirstKey(remote.up),
                   IF remote.up THEN Len(ep[e]._local_feeds)
                   ELSE ManyKeys - Len(ep[e]._local_feeds) + 1}:
          FeedCall(e, key)

ManyInit ==
    \E enc \in BOOLEAN, up \in BOOLEAN:
        /\ remote = [enc |-> enc, key |-> 1, ch |-> 0, n |-> 0, ud |-> 0, up |-> up]
        /\ script = <<>>
        /\ InitEndpoints(enc)

ManyNext ==
    \/ OpenNext("a")
    \/ Reopen("a")

ManySpec == ManyInit /\ [][ManyNext]_vars

\* ------------------------------------------------------------------------
\* SlotSpec: endpoint a against a remote that opens the remote channels 0
\* and 1 and then uses both, one write per frame
\* ------------------------------------------------------------------------

\* The frames of the remote r, before its cipher: its Feed for r.key on
\* channel 0, its Handshake, a Feed on channel 1 (for the same key when
\* r.same, for the other key otherwise), then one message on channel r.back
\* and one on the other channel.
SlotPlain(r) ==
    <<write_msg(0, FeedMsg(discovery_key(r.key),
                           IF r.enc THEN Some(RemoteNonce) ELSE None)),
      write_msg(0, RemoteHandshake(r)),
      write_msg(1, FeedMsg(discovery_key(IF r.same THEN r.key ELSE OtherKey(r.key)),
                           None)),
      write_msg(r.back, RemoteInfo(1)),
      write_msg(1 - r.back, RemoteInfo(2))>>

SlotInit ==
    \E enc \in BOOLEAN, key \in Keys, same \in BOOLEAN, back \in {0, 1}:
        /\ remote = [enc |-> enc, key |-> key, ch |-> 1, n |-> 0, ud |-> 0,
                     same |-> same, back |-> back]
        /\ script = Encrypted(remote, SlotPlain(remote))
        /\ InitEndpoints(enc)

SlotNext ==
    \/ \E key \in Keys: FeedCall("a", key)
    \/ WriteFrame("a")

SlotSpec == SlotInit /\ [][SlotNext]_vars

\* ------------------------------------------------------------------------
\* KeepSpec: endpoint a against a remote that sends keepalives, one write
\* per frame
\* ------------------------------------------------------------------------

\* a frame with the length prefix 0 and nothing else
KeepAlive == <<0>>

\* The frames of the remote r, before its cipher: its Feed, its Handshake
\* and one message on channel 0, with r.count keepalives in front of the
\* frame number r.at.
KeepPlain(r) ==
    LET frames == RemotePlain(r)
    IN  SubSeq(frames, 1, r.at - 1)
            \o [i \in 1..r.count |-> KeepAlive]
            \o SubSeq(frames, r.at, Len(frames))

KeepInit ==
    \E enc \in BOOLEAN, key \in Keys, at \in {2, 3}, count \in {1, 2}:
        /\ remote = [enc |-> enc, key |-> key, ch |-> 0, n |-> 1, ud |-> 0,
                     at |-> at, count |-> count]
        /\ script = Encrypted(remote, KeepPlain(remote))
        /\ InitEndpoints(enc)

KeepNext ==
    \/ \E key \in Keys: FeedCall("a", key)
    \/ WriteFrame("a")

KeepSpec == KeepInit /\ [][KeepNext]_vars

\* ------------------------------------------------------------------------
\* Claims
\* ------------------------------------------------------------------------

\* what an endpoint shows of a run: the events it emitted, the frames it
\* dispatched and the buffers it pushed
Obs(p) == [events |-> p.events, dispatched |-> p.dispatched, sent |-> p.sent]

\* C1: once the whole inbound stream has been written, in however many
\* chunks, the endpoint shows the same events, the same dispatched frames
\* and the same pushed bytes as the run that is given the stream in one
\* write.
C1_ChunkingEquivalence ==
    recv["a"] = Len(Inbound("a"))
        => Obs(ep["a"]) = Obs(_write(base, Inbound("a")))

\* the (channel, type, payload) of an encoded frame
FrameOf(frame) ==
    LET n == decode_var(frame)[2]
        hv == decode_var(SubSeq(frame, n + 1, Len(frame)))
        h == decode_header(hv[1] % 65536)
    IN  [channel |-> h.channel, type |-> h.type,
         payload |-> SubSeq(frame, n + hv[2] + 1, Len(frame))]

\* how many of the frames lie within the first n bytes of their stream
RECURSIVE FramesWithin(_, _)
FramesWithin(frames, n) ==
    IF Len(frames) = 0 \/ Len(Head(frames)) > n THEN 0
    ELSE 1 + FramesWithin(Tail(frames), n - Len(Head(frames)))

\* the frames the scripted remote has sent in the bytes a was given
ReceivedFrames ==
    LET k == FramesWithin(script, recv["a"])
    IN  [i \in 1..k |-> FrameOf(RemotePlain(remote)[i])]

\* a holds the remote's nonce and waits for the local key
Paused(p) ==
    Running(p) /\ p.encrypted /\ IsNone(p.key) /\ IsSome(p._remote_nonce)

\* C2: while an encrypted endpoint that received the remote's first Feed
\* waits for the local key, a write dispatches no frame; and the feed(key)
\* call that ends the wait (for the remote's key) leaves every frame of the
\* bytes received so far dispatched, decrypted, in stream order.
C2_PauseThenResume ==
    [][Paused(ep["a"]) =>
          /\ IsNone(ep'["a"].key) => ep'["a"].dispatched = ep["a"].dispatched
          /\ (IsSome(ep'["a"].key)
                 /\ ep'["a"].discovery_key = ep["a"].remote_discovery_key)
               => ep'["a"].dispatched = ReceivedFrames']_vars

\* the keystream position of the i-th push: the bytes pushed after the first
\* frame and before it
RECURSIVE SentBefore(_, _)
SentBefore(plain, i) ==
    IF i <= 2 THEN 0 ELSE Len(plain[i - 1]) + SentBefore(plain, i - 1)

\* C3: an encrypted endpoint pushes first the Feed of its first local
\* channel, in the clear and with its 24-byte nonce; every later push is the
\* encoded frame XORed with the next bytes of the local keystream, and a
\* later Feed carries no nonce.
C3_OutboundEncryption ==
    LET p == ep["a"]
    IN  (p.encrypted /\ Len(p.sent) > 0) =>
          /\ IsSome(p._nonce) /\ Len(Unwrap(p._nonce)) = NONCE_LEN
          /\ p.sent[1] = write_msg(0, FeedMsg(Unwrap(p.discovery_key), p._nonce))
          /\ Unwrap(p.discovery_key) = p._local_feeds[1]
          /\ \A i \in 2..Len(p.sent):
                /\ p.sent[i] =
                      XorOut([nonce |-> Unwrap(p._nonce), key |-> Unwrap(p.key),
                              pos |-> SentBefore(p.plain, i)], p.plain[i])
                /\ FrameOf(p.plain[i]).type = T_Feed
                      => IsNone(DecodeFeedPayload(FrameOf(p.plain[i]).payload).msg.nonce)

\* an encrypted endpoint that pushed its first Feed, its Handshake, the Feed
\* of a second channel and a Data message
C3_Witness ==
    LET p == ep["a"]
    IN  /\ p.encrypted /\ Running(p) /\ Len(p.sent) = 4
        /\ FrameOf(p.plain[2]).type = T_Handshake
        /\ \E i \in 3..4: FrameOf(p.plain[i]).type = T_Feed
        /\ \E i \in 3..4: FrameOf(p.plain[i]).type = T_Data

\* the discovery keys of the remote Feed frames p accepted
Accepted(p) ==
    {Unwrap(p._remote_feeds[i]) :
        i \in {j \in 1..Len(p._remote_feeds) : IsSome(p._remote_feeds[j])}}

EventsOf(p, kind) == SelectSeq(p.events, LAMBDA ev: ev.kind = kind)

\* both endpoints called feed for the same key and nothing is left to deliver
PairDone ==
    /\ \A e \in Endpoints: fedAt[e] >= 0 /\ IsSome(ep[e].key)
    /\ ep["a"].key = ep["b"].key
    /\ \A e \in Endpoints: ~Running(ep[e]) \/ recv[e] = Len(Inbound(e))

\* C4: an endpoint has emitted exactly one Feed(dk) event for every remote
\* Feed it accepted; and when two endpoints that called feed for the same
\* key have exchanged all their frames, each has seen Feed(dk), Handshake.
C4_FeedThenHandshake ==
    /\ \A e \in Endpoints: \A dk \in Accepted(ep[e]):
          Len(SelectSeq(ep[e].events,
                        LAMBDA ev: ev.kind = "Feed" /\ ev.dk = Some(dk))) = 1
    /\ PairDone =>
          \A e \in Endpoints:
              ep[e].events = <<Ev("Feed", ep[e].discovery_key, None), HandshakeEvent>>

\* C5: when two endpoints that each called feed once for the same key have
\* nothing left to exchange, each has pushed exactly two buffers, its Feed
\* and then its Handshake, whatever the order of deliveries and feed calls.
C5_TwoPushes ==
    PairDone =>
        \A e \in Endpoints:
            /\ Len(ep[e].sent) = 2
            /\ FrameOf(ep[e].plain[1]).type = T_Feed
            /\ FrameOf(ep[e].plain[2]).type = T_Handshake

\* C6: when two endpoints that called feed for the same key have exchanged
\* all their frames, each holds the peer's id, live, ack and user_data as
\* remote_id, remote_live, remote_ack, remote_user_data, and its own
\* options are those it was constructed with.
C6_HandshakeOptions ==
    PairDone =>
        \A e \in Endpoints:
            LET p == ep[e]
                q == ep[Peer(e)]
                o == OptsOf(e, p.encrypted)
            IN  /\ p.remote_id = Some(q.id)
                /\ p.remote_live = Some(q.live)
                /\ p.remote_ack = Some(q.ack)
                /\ p.remote_user_data = q.user_data
                /\ p.id = Unwrap(o.id)
                /\ p.live = unwrap_or(o.live, FALSE)
                /\ p.ack = unwrap_or(o.ack, FALSE)
                /\ p.user_data = o.user_data

\* the Message events of the messages msgs received on the channel of dk
MessageEvents(dk, msgs) == [i \in 1..Len(msgs) |-> Ev("Message", Some(dk), Some(msgs[i]))]

\* the channel of dk was opened by the remote only and holds n messages
Pending(p, dk, n) ==
    /\ Running(p) /\ ~p._needs_key
    /\ dk \in p._feeds
    /\ IsNone(p.chan[dk].id)
    /\ IsSome(p.chan[dk]._buffer)
    /\ Len(Unwrap(p.chan[dk]._buffer)) = n

\* C7: no Message event is emitted for a channel the local side has not
\* opened; and the feed call that opens a channel holding n <= 16 pending
\* messages emits them as Message events, in the order received, and
\* discards the buffer.
C7_DrainOnOpen ==
    [][\A key \in Keys: \A n \in 1..MAX_PENDING:
          LET dk == discovery_key(key)
          IN  Pending(ep["a"], dk, n) =>
                /\ EventsOf(ep["a"], "Message") = <<>>
                /\ IsSome(ep'["a"].chan[dk].id) =>
                      /\ EventsOf(ep'["a"], "Message")
                            = MessageEvents(dk, Unwrap(ep["a"].chan[dk]._buffer))
                      /\ IsNone(ep'["a"].chan[dk]._buffer)]_vars

\* C8: the pending buffer of every channel holds at most 16 messages.
C8_PendingBound ==
    \A e \in Endpoints: \A dk \in DOMAIN ep[e].chan:
        IsSome(ep[e].chan[dk]._buffer)
            => Len(Unwrap(ep[e].chan[dk]._buffer)) <= MAX_PENDING

\* the messages (neither Feed nor Handshake) dispatched on remote channel id
MessagesOn(p, id) ==
    SelectSeq(p.dispatched,
              LAMBDA f: f.channel = id /\ f.type # T_Feed /\ f.type # T_Handshake)

\* C9: once the remote has sent seventeen messages on a channel the local
\* side has not opened, the endpoint is destroyed with the reason "Remote
\* sent too many messages on an unopened feed" and the buffer holds no
\* more than the sixteen messages before it.
C9_SeventeenthDestroys ==
    LET p == ep["a"]
    IN  \A dk \in DOMAIN p.chan:
            (/\ IsNone(p.chan[dk].id)
             /\ IsSome(p.chan[dk].remote_id)
             /\ Len(MessagesOn(p, Unwrap(p.chan[dk].remote_id))) > MAX_PENDING)
            => /\ p.destroyed
               /\ p.destroy_reason
                      = Some("Remote sent too many messages on an unopened feed")
               /\ IsSome(p.chan[dk]._buffer)
                      => Len(Unwrap(p.chan[dk]._buffer)) <= MAX_PENDING

\* C10: an endpoint whose first local discovery key differs from the first
\* remote discovery key is destroyed with the reason "First shared
\* hypercore must be the same", encrypted or not, whichever open came first.
C10_FirstKeyMismatch ==
    LET p == ep["a"]
    IN  (/\ IsSome(p.discovery_key)
         /\ IsSome(p.remote_discovery_key)
         /\ p.discovery_key # p.remote_discovery_key)
        => /\ p.destroyed
           /\ p.destroy_reason = Some("First shared hypercore must be the same")

\* the Feed frames p dispatched, in order
FeedsSeen(p) == SelectSeq(p.dispatched, LAMBDA f: f.type = T_Feed)

\* the first remote Feed p dispatched was well-formed and carried no nonce,
\* and its discovery key does not disagree with a local one
NonceMissing(p) ==
    /\ p.encrypted
    /\ Len(FeedsSeen(p)) > 0
    /\ LET r == decode_feed(FeedsSeen(p)[1].payload, 0, Len(FeedsSeen(p)[1].payload))
       IN  /\ r.ok
           /\ IsNone(r.msg.nonce)
           /\ IsNone(p.discovery_key) \/ p.discovery_key = Some(r.msg.discoveryKey)

\* C11: an encrypted endpoint whose first remote Feed carried no nonce has
\* been destroyed with "Remote did not include a nonce" (the destroy call
\* returned); it holds no remote nonce and no remote cipher, no remote
\* channel slot is filled and no Feed event was emitted.
C11_MissingNonce ==
    LET p == ep["a"]
    IN  NonceMissing(p) =>
          /\ Running(p)
          /\ p.destroyed
          /\ p.destroy_reason = Some("Remote did not include a nonce")
          /\ IsNone(p._remote_nonce)
          /\ IsNone(p._remote_xor)
          /\ \A i \in 1..Len(p._remote_feeds): IsNone(p._remote_feeds[i])
          /\ EventsOf(p, "Feed") = <<>>

\* the nonce-less Feed reached an endpoint that had opened no channel, the
\* destroy completed and the rest of the remote's frames were written
C11_Witness ==
    /\ NonceMissing(ep["a"])
    /\ Running(ep["a"])
    /\ ep["a"].destroyed
    /\ recv["a"] = Len(Inbound("a"))

\* frame f is a channel message on a remote channel of p that the local
\* side has opened too
OnOpenChannel(p, f) ==
    /\ f.type \notin {T_Feed, T_Handshake, T_Extension}
    /\ f.channel < Len(p._remote_feeds)
    /\ IsSome(p._remote_feeds[f.channel + 1])
    /\ IsSome(p.chan[Unwrap(p._remote_feeds[f.channel + 1])].id)
    /\ read_msg2(f.type, f.payload).ok

\* the Message events due for the frames, in their order
RECURSIVE MessagesDue(_, _)
MessagesDue(p, frames) ==
    IF Len(frames) = 0 THEN <<>>
    ELSE (IF OnOpenChannel(p, Head(frames))
          THEN <<Ev("Message", p._remote_feeds[Head(frames).channel + 1],
                    Some(read_msg2(Head(frames).type, Head(frames).payload).msg))>>
          ELSE <<>>)
         \o MessagesDue(p, Tail(frames))

\* C12: a write appends to the Message events exactly the messages of the
\* frames it dispatched on open channels, one event per frame, in the order
\* of the frames.
C12_MessageOrder ==
    [][ep'["a"]._local_feeds = ep["a"]._local_feeds =>
          EventsOf(ep'["a"], "Message")
              = EventsOf(ep["a"], "Message")
                  \o MessagesDue(ep["a"],
                         SubSeq(ep'["a"].dispatched, Len(ep["a"].dispatched) + 1,
                                Len(ep'["a"].dispatched)))]_vars

\* the i-th buffer p pushed, as the peer reads it: with the local keystream
\* taken off again when p is encrypted (the first push is sent in the clear)
OnWire(p, i) ==
    IF p.encrypted /\ i > 1
    THEN XorOut([nonce |-> Unwrap(p._nonce), key |-> Unwrap(p.key),
                 pos |-> SentBefore(p.plain, i)], p.sent[i])
    ELSE p.sent[i]

\* the Handshake frame p owes on its first channel
OwnHandshake(p) ==
    write_msg(0, HandshakeMsg(Some(p.id), Some(p.live), p.user_data,
                              p.extensions, Some(p.ack)))

\* C13: an endpoint that opened at least one channel (and was not destroyed
\* doing so) has pushed the Feed of channel 0 and, as its very next push,
\* one Handshake frame on channel 0 with its id, live, user_data,
\* extensions and ack; no other push is a Handshake.
C13_OneHandshake ==
    LET p == ep["a"]
    IN  (Running(p) /\ ~p.destroyed /\ Len(p._local_feeds) > 0) =>
          /\ Len(p.sent) >= 2
          /\ FrameOf(OnWire(p, 1)).type = T_Feed
          /\ FrameOf(OnWire(p, 1)).channel = 0
          /\ OnWire(p, 2) = OwnHandshake(p)
          /\ \A i \in 3..Len(p.sent): FrameOf(p.plain[i]).type # T_Handshake

\* the Handshake frames p dispatched, in order
HandshakesSeen(p) == SelectSeq(p.dispatched, LAMBDA f: f.type = T_Handshake)

\* the remote identity fields of p
RemoteFields(p) ==
    <<p.remote_id, p.remote_live, p.remote_ack, p.remote_user_data, p.remote_extensions>>

\* the remote identity fields a Handshake message hs sets on p
FieldsFrom(p, hs) ==
    <<Some(IF IsSome(hs.id) THEN Unwrap(hs.id) ELSE IdOf(0)), hs.live, hs.ack,
      hs.userData, sorted_index_of(p.extensions, hs.extensions)>>

\* C14: the remote identity fields are unset until a Handshake is received,
\* are then those of the first Handshake received and never change again;
\* the endpoint has emitted one Handshake event once they are set and none
\* before, however many Handshake frames follow.
C14_HandshakeOnce ==
    [][LET p == ep["a"]
           q == ep'["a"]
       IN  /\ IsSome(p.remote_id) => RemoteFields(q) = RemoteFields(p)
           /\ (Running(q) /\ Len(HandshakesSeen(q)) > 0) => IsSome(q.remote_id)
           /\ IsNone(q.remote_id) =>
                 /\ RemoteFields(q) = <<None, None, None, None, <<>>>>
                 /\ EventsOf(q, "Handshake") = <<>>
           /\ IsSome(q.remote_id) =>
                 /\ Len(HandshakesSeen(q)) > 0
                 /\ RemoteFields(q)
                       = FieldsFrom(q, read_msg2(T_Handshake,
                                                 HandshakesSeen(q)[1].payload).msg)
                 /\ EventsOf(q, "Handshake") = <<HandshakeEvent>>]_vars

\* the endpoint received two Handshake frames with different contents and
\* went on to the next frame
C14_Witness ==
    LET p == ep["a"]
    IN  /\ Running(p)
        /\ Len(HandshakesSeen(p)) = 2
        /\ HandshakesSeen(p)[1].payload # HandshakesSeen(p)[2].payload
        /\ p.remote_id = Some(RemoteId)
        /\ Len(p.dispatched) > 3

\* a frame a channel could send
SomeData == write_msg(0, DataMsg(42, Some(<<104, 105>>)))

\* C15: on a destroyed endpoint every call is a no-op.  Whatever call is
\* made next, the events, the dispatched frames, the pushed buffers and the
\* channels stay as they are and the call returns no channel; feed with any
\* key assigns and pushes nothing and returns none, a second destroy and a
\* channel's push change nothing.
C15_DestroyedIsInert ==
    [][LET p == ep["a"]
           q == ep'["a"]
       IN  (p.destroyed /\ Running(p)) =>
             /\ Obs(q) = Obs(p)
             /\ q._local_feeds = p._local_feeds
             /\ q._remote_feeds = p._remote_feeds
             /\ q.chan = p.chan
             /\ q.destroyed /\ Running(q)
             /\ q.destroy_reason = p.destroy_reason
             /\ IsNone(q.result)
             /\ \A key \in Keys, nonce \in Nonces:
                   feed(p, key, nonce) = [p EXCEPT !.result = None]
             /\ destroy(p, "again") = p
             /\ FeedStreamHack_push(p, SomeData) = p]_vars

\* a destroyed endpoint on which feed was called afterwards and to which
\* all the remaining frames were written
C15_Witness ==
    LET p == ep["a"]
    IN  /\ p.destroyed /\ Running(p)
        /\ fedAt["a"] > 0
        /\ IsNone(p.key)
        /\ writes["a"] >= 3
        /\ recv["a"] = Len(Inbound("a"))

\* C16: a destroyed endpoint is one whose destroy call returned: every
\* channel it had is closed, it holds neither the local nor the remote
\* cipher, and it has emitted a close event.
C16_DestroyCompletes ==
    LET p == ep["a"]
    IN  p.destroyed =>
          /\ Running(p)
          /\ \A dk \in DOMAIN p.chan: p.chan[dk].closed
          /\ IsNone(p._xor)
          /\ IsNone(p._remote_xor)
          /\ Len(EventsOf(p, "Close")) = 1

\* the last frame p dispatched is a channel message or Handshake on a
\* remote channel id for which p accepted no Feed
OrphanFrame(p) ==
    /\ Len(p.dispatched) > 0
    /\ LET f == p.dispatched[Len(p.dispatched)]
       IN  /\ f.type # T_Feed
           /\ f.channel < Len(p._remote_feeds) => IsNone(p._remote_feeds[f.channel + 1])

\* C17: a frame other than a Feed on a remote channel id without an
\* accepted Feed leaves the endpoint destroyed with the reason "bad feed"
\* and a close event; no Message or Handshake event is emitted for it.
C17_BadFeed ==
    [][LET p == ep["a"]
           q == ep'["a"]
       IN  (Len(q.dispatched) = Len(p.dispatched) + 1 /\ OrphanFrame(q)) =>
             /\ Running(q)
             /\ q.destroyed
             /\ q.destroy_reason = Some("bad feed")
             /\ Len(EventsOf(q, "Close")) = 1
             /\ EventsOf(q, "Message") = EventsOf(p, "Message")
             /\ EventsOf(q, "Handshake") = EventsOf(p, "Handshake")]_vars

\* the endpoint reads the remote's frames as sent: it has no cipher to set
\* up, or it set it up for the remote's key before the first write
WellParsed ==
    \/ ~ep["a"].encrypted
    \/ fedAt["a"] = 0 /\ ep["a"].key = Some(remote.key)

\* the position, among the frames of the faulty remote, of the faulty one
FaultAt(r) == IF r.fault \in FirstFrameFaults THEN 1 ELSE 3

\* C18: once a frame with the header 0xFFFF or with an unknown type tag has
\* been written, the endpoint is destroyed (the destroy call returned) and
\* has dispatched the frames before the faulty one and nothing else,
\* whatever was written afterwards.
C18_BadHeader ==
    (/\ remote.fault \in {"first_ffff", "ffff", "badtype"}
     /\ remote.fault = "first_ffff" \/ WellParsed
     /\ FramesWithin(script, recv["a"]) >= FaultAt(remote))
    => /\ Running(ep["a"])
       /\ ep["a"].destroyed
       /\ Len(ep["a"].dispatched) = FaultAt(remote) - 1

\* lengths the parser has to accept, up to the largest
GoodLengths == {0, 1, 127, 128, 16383, 16384, 2097151, 2097152, MAX_MESSAGE}

\* C19: a length prefix above 8*1024*1024, or one whose varint does not end
\* within four bytes, leaves the endpoint destroyed with "message too big"
\* and nothing after it parsed; every length up to 8*1024*1024 is accepted
\* and becomes the number of missing payload bytes.
C19_LengthLimit ==
    LET p == ep["a"]
    IN  /\ (/\ remote.fault \in {"biglen", "len5"}
            /\ WellParsed
            /\ FramesWithin(script, recv["a"]) >= FaultAt(remote))
           => /\ Running(p)
              /\ p.destroyed
              /\ p.destroy_reason = Some("message too big")
              /\ Len(p.dispatched) = FaultAt(remote) - 1
        /\ (/\ remote.fault = "maxlen"
            /\ WellParsed
            /\ FramesWithin(script, recv["a"]) = FaultAt(remote))
           => /\ Running(p) /\ ~p.destroyed
              /\ p._missing = MAX_MESSAGE
        /\ (Running(p) /\ ~p.destroyed /\ p._missing = 0 /\ p._pointer = 0)
           => \A len \in GoodLengths:
                 LET q == _parse_length(p, encode_var(len), 0)
                 IN  /\ Running(q) /\ ~q.destroyed
                     /\ q._missing = len
                     /\ q.ret = Len(encode_var(len))

\* C20: the channels an endpoint opened carry the numbers 0, 1, 2, ... in
\* the order of the first feed call for their keys, one number per key;
\* every number lies in 0..127; a number, once assigned, stays with its
\* channel, and a call either leaves the list of local channels alone or
\* appends one channel to it.
C20_ChannelNumbers ==
    [][LET p == ep["a"]
           q == ep'["a"]
       IN  /\ \A i \in 1..Len(q._local_feeds):
                 /\ q.chan[q._local_feeds[i]].id = Some(i - 1)
                 /\ \A j \in 1..Len(q._local_feeds):
                       q._local_feeds[i] = q._local_feeds[j] => i = j
           /\ \A dk \in DOMAIN q.chan:
                 IsSome(q.chan[dk].id) =>
                    /\ Unwrap(q.chan[dk].id) \in 0..(MAX_CHANNELS - 1)
                    /\ \E i \in 1..Len(q._local_feeds): q._local_feeds[i] = dk
           /\ \A dk \in DOMAIN p.chan:
                 IsSome(p.chan[dk].id) => q.chan[dk].id = p.chan[dk].id
           /\ \/ q._local_feeds = p._local_feeds
              \/ /\ Len(q._local_feeds) = Len(p._local_feeds) + 1
                 /\ SubSeq(q._local_feeds, 1, Len(p._local_feeds)) = p._local_feeds]_vars

\* a feed call for a key the endpoint has no channel for: _feed creates the
\* channel before feed looks at the local table
NewKeyCall(p, q) == Running(p) /\ ~p.destroyed /\ q._feeds # p._feeds

LocallyOpen(p, key) ==
    /\ discovery_key(key) \in p._feeds
    /\ IsSome(p.chan[discovery_key(key)].id)

\* C22: feed(key) for a key whose channel has a local id returns that
\* channel and changes nothing else of the endpoint: channel numbers, the
\* local table, the bytes pushed and the cipher states stay as they were.
C22_FeedAgain ==
    \A e \in Endpoints, key \in Keys, nonce \in Nonces:
        (Running(ep[e]) /\ ~ep[e].destroyed /\ LocallyOpen(ep[e], key)) =>
            feed(ep[e], key, nonce) =
                [ep[e] EXCEPT !.result = Some(discovery_key(key))]

\* an encrypted endpoint whose channel is open on both sides, whose cipher
\* has advanced, and which is asked for that channel again
C22_Witness ==
    \E key \in Keys:
        LET p == ep["a"]
            dk == discovery_key(key)
        IN  /\ Running(p) /\ ~p.destroyed /\ LocallyOpen(p, key)
            /\ IsSome(p.chan[dk].remote_id)
            /\ IsSome(p._xor) /\ Unwrap(p._xor).pos > 0
            /\ Len(p.sent) >= 2
            /\ p.result = Some(dk)
            /\ \A nonce \in Nonces: feed(p, key, nonce).sent = p.sent

\* the pushes that came from a channel send (Feed::handshake, Feed::data)
ChannelSends(p) ==
    {i \in 1..Len(p.sent) : FrameOf(p.plain[i]).type \in {T_Handshake, T_Data}}

\* C23: what a channel send hands to the transport is the codec encoding of
\* the message as it is on an unencrypted endpoint, and that encoding XORed
\* with the next bytes of the local keystream on an encrypted one.
C23_ChannelSendBytes ==
    LET p == ep["a"]
    IN  \A i \in ChannelSends(p):
            p.sent[i] =
                IF p.encrypted
                THEN XorOut([nonce |-> Unwrap(p._nonce), key |-> Unwrap(p.key),
                             pos |-> SentBefore(p.plain, i)], p.plain[i])
                ELSE p.plain[i]

\* the 0-based index of name in the list, or none
IndexIn(list, name) ==
    IF \E j \in 1..Len(list): list[j] = name
    THEN Some((CHOOSE j \in 1..Len(list): list[j] = name) - 1)
    ELSE None

\* C24: once a Handshake was received, remote_extensions has one entry per
\* name of the remote's extension list, in the remote's order: the index of
\* that name in the local extension list, or none when the local list does
\* not hold it, whatever list the endpoint was constructed with.
C24_RemoteExtensions ==
    LET p == ep["a"]
    IN  (Running(p) /\ IsSome(p.remote_id)) =>
           p.remote_extensions =
               [i \in 1..Len(remote.ext) |-> IndexIn(p.extensions, remote.ext[i])]

\* C26: for every channel c in 0..127 and every type tag t of 0..9 and 15,
\* encode_header gives (c << 4) | t, a value below 2^16, and decode_header
\* gives (c, t) back from it; neither call panics.
C26_HeaderRoundTrip ==
    (unit.channel < MAX_CHANNELS /\ unit.stage # "header") =>
        /\ ~unit.panic
        /\ unit.header = Some(unit.channel * 16 + unit.type)
        /\ Unwrap(unit.header) < 65536
        /\ unit.stage = "decoded" =>
              unit.out = Some([channel |-> unit.channel, type |-> unit.type])

\* the header of channel 127 and type tag 15, encoded and decoded
C26_Witness ==
    /\ unit.stage = "decoded"
    /\ unit.channel = MAX_CHANNELS - 1
    /\ unit.type = T_Extension
    /\ unit.header = Some(2047)
    /\ unit.out = Some([channel |-> 127, type |-> 15])

\* the eleven message types all occur among the messages encoded
AllTypesCovered == {m.type : m \in CodecMessages} = MessageTypes

\* C25: for every channel in 0..127 and every message of each of the eleven
\* types, write_msg produces a length prefix that counts the bytes after
\* it, and reading those bytes yields the same channel and message; neither
\* call panics.
C25_FrameRoundTrip ==
    (unit.channel < MAX_CHANNELS /\ unit.stage # "msg") =>
        /\ AllTypesCovered
        /\ ~unit.panic
        /\ IsSome(unit.bytes)
        /\ LET b == Unwrap(unit.bytes)
               lenv == decode_var(b)
           IN  lenv[1] = Len(b) - lenv[2]
        /\ unit.stage = "read" =>
              LET r == Unwrap(unit.out)
              IN  r.ok /\ r.channel = unit.channel /\ r.msg = Some(unit.msg)

\* one update call of a fresh instance of (nonce, key) on the whole input
OneUpdate(nonce, key, input) ==
    XorOut(crypto_stream_xor_instance(nonce, key), input)

\* C27: however an input is split across consecutive update calls, the
\* outputs put together are the output of one update on the bytes given so
\* far, and a second cipher of the same (nonce, key), under a split of its
\* own, turns that output back into the input.
C27_CipherSplit ==
    /\ unit.out = OneUpdate(unit.nonce, unit.key, SubSeq(unit.input, 1, Len(unit.out)))
    /\ unit.back = SubSeq(unit.input, 1, Len(unit.back))
    /\ Len(unit.back) = Len(unit.input) => unit.back = unit.input

\* an input of full length encrypted in three calls and decrypted in two,
\* whose ciphertext differs from it
C27_Witness ==
    /\ Len(unit.input) = CipherLen
    /\ unit.calls = <<3, 2>>
    /\ unit.back = unit.input
    /\ unit.out = OneUpdate(unit.nonce, unit.key, unit.input)
    /\ unit.out # unit.input

\* the endpoint can read the remote's stream: it is unencrypted, or it
\* called feed for the remote's key before the first write
Readable(p) ==
    ~p.encrypted \/ (fedAt["a"] = 0 /\ p.key = Some(remote.key))

\* the frame the next byte belongs to, and how many of its bytes arrived
CurrentFrame == script[FramesWithin(script, recv["a"]) + 1]
RECURSIVE TotalLen(_)
TotalLen(frames) == IF Len(frames) = 0 THEN 0 ELSE Len(Head(frames)) + TotalLen(Tail(frames))
ArrivedOfCurrent ==
    recv["a"] - TotalLen(SubSeq(script, 1, FramesWithin(script, recv["a"])))

\* the bytes the framer holds of an incomplete frame
Buffered(p) == IF IsSome(p._buf) THEN Len(Unwrap(p._buf).data) ELSE 0

\* C28: a frame whose bytes arrive across several writes is dispatched
\* once, when its last byte has arrived, with the header and payload it has
\* in the stream; while it is incomplete it is not dispatched, the endpoint
\* is not destroyed, and the bytes the framer holds plus the bytes it
\* misses are the length of the frame.
C28_StraddlingFrame ==
    LET p == ep["a"]
    IN  Readable(p) =>
           /\ p.dispatched = ReceivedFrames
           /\ recv["a"] < Len(Inbound("a")) =>
                 LET n == decode_var(RemotePlain(remote)[FramesWithin(script, recv["a"]) + 1])[2]
                 IN  ArrivedOfCurrent >= n =>
                        /\ Running(p) /\ ~p.destroyed
                        /\ Buffered(p) + p._missing = Len(CurrentFrame) - n

\* the last frame q dispatched is a Feed with a valid payload on a remote
\* channel id whose slot held a channel in p
FeedOnTakenSlot(p, q) ==
    /\ Len(q.dispatched) = Len(p.dispatched) + 1
    /\ LET f == q.dispatched[Len(q.dispatched)]
       IN  /\ f.type = T_Feed
           /\ CheckFeed(DecodeFeedPayload(f.payload)).ok
           /\ f.channel < Len(p._remote_feeds)
           /\ IsSome(p._remote_feeds[f.channel + 1])

\* C29: a Feed frame on a remote channel id whose slot is occupied closes
\* the channel that held the slot and opens the slot anew: afterwards the
\* slot holds the channel of the new Feed's discovery key, the channel that
\* held it is closed, and the endpoint is not destroyed.
C29_ReopenRemoteSlot ==
    [][LET p == ep["a"]
           q == ep'["a"]
       IN  FeedOnTakenSlot(p, q) =>
              LET f == q.dispatched[Len(q.dispatched)]
                  old == Unwrap(p._remote_feeds[f.channel + 1])
              IN  /\ Running(q)
                  /\ ~q.destroyed
                  /\ q.chan[old].closed
                  /\ q._remote_feeds[f.channel + 1]
                        = Some(DecodeFeedPayload(f.payload).msg.discoveryKey)]_vars

\* the last frame q dispatched is a Feed whose payload decode_feed rejects
RejectedFeed(p, q) ==
    /\ Len(q.dispatched) = Len(p.dispatched) + 1
    /\ LET f == q.dispatched[Len(q.dispatched)]
       IN  f.type = T_Feed /\ ~CheckFeed(DecodeFeedPayload(f.payload)).ok

\* C30: a remote Feed frame whose payload does not decode, whose discovery
\* key is not 32 bytes long or whose nonce is not 24 bytes long leaves the
\* endpoint destroyed (the destroy call returned), with no channel at that
\* remote id and with remote_discovery_key and the remote nonce as before.
C30_RejectedFeed ==
    [][LET p == ep["a"]
           q == ep'["a"]
       IN  RejectedFeed(p, q) =>
              LET f == q.dispatched[Len(q.dispatched)]
              IN  /\ Running(q)
                  /\ q.destroyed
                  /\ f.channel < Len(q._remote_feeds) =>
                        q._remote_feeds[f.channel + 1] =
                           (IF f.channel < Len(p._remote_feeds)
                            THEN p._remote_feeds[f.channel + 1] ELSE None)
                  /\ q.remote_discovery_key = p.remote_discovery_key
                  /\ q._remote_nonce = p._remote_nonce]_vars

\* the positions of dk in the local table and in the remote table of p
LocalSlots(p, dk) == {i \in 1..Len(p._local_feeds) : p._local_feeds[i] = dk}
RemoteSlots(p, dk) == {r \in 1..Len(p._remote_feeds) : p._remote_feeds[r] = Some(dk)}

\* C31: the channel map holds one channel per discovery key, and a local
\* feed(key) and a remote Feed for discovery_key(key), in either order, end
\* up on it: the channel the local table and the remote table hold for that
\* discovery key has a local id and a remote id, each naming its slot.
C31_OneChannelPerKey ==
    \A e \in Endpoints:
        LET p == ep[e]
        IN  /\ p._feeds \subseteq DOMAIN p.chan
            /\ \A dk \in DOMAIN p.chan:
                  /\ Cardinality(LocalSlots(p, dk)) <= 1
                  /\ LocalSlots(p, dk) # {} =>
                        /\ IsSome(p.chan[dk].id)
                        /\ Unwrap(p.chan[dk].id) + 1 \in LocalSlots(p, dk)
                  /\ RemoteSlots(p, dk) # {} =>
                        /\ IsSome(p.chan[dk].remote_id)
                        /\ Unwrap(p.chan[dk].remote_id) + 1 \in RemoteSlots(p, dk)

\* the remote's Feed arrived first and the local feed call for the same key
\* followed: one channel with both ids
C31_Witness ==
    LET p == ep["a"]
        dk == discovery_key(remote.key)
    IN  /\ fedAt["a"] > 0
        /\ dk \in p._feeds
        /\ LocalSlots(p, dk) # {} /\ RemoteSlots(p, dk) # {}
        /\ IsSome(p.chan[dk].id) /\ IsSome(p.chan[dk].remote_id)
        /\ Cardinality(p._feeds) = 2

\* C32: in every state of an encrypted endpoint that is not destroyed, the
\* remote cipher exists exactly when the local key and the remote nonce are
\* both known, and is the cipher of that nonce and key; the local cipher
\* exists exactly when the local key is known, and is the cipher of the
\* local nonce and that key.
C32_CiphersExist ==
    \A e \in Endpoints:
        LET p == ep[e]
        IN  (p.encrypted /\ Running(p) /\ ~p.destroyed) =>
               /\ IsSome(p._remote_xor) <=> (IsSome(p.key) /\ IsSome(p._remote_nonce))
               /\ IsSome(p._remote_xor) =>
                     /\ Unwrap(p._remote_xor).nonce = Unwrap(p._remote_nonce)
                     /\ Unwrap(p._remote_xor).key = Unwrap(p.key)
               /\ IsSome(p._xor) <=> IsSome(p.key)
               /\ IsSome(p._xor) =>
                     /\ Unwrap(p._xor).nonce = Unwrap(p._nonce)
                     /\ Unwrap(p._xor).key = Unwrap(p.key)

\* the remote's nonce arrived before the local key: the remote cipher was
\* built by the feed call
C32_Witness ==
    LET p == ep["a"]
    IN  /\ p.encrypted /\ Running(p) /\ ~p.destroyed
        /\ fedAt["a"] > 0
        /\ IsSome(p.key) /\ IsSome(p._remote_nonce)
        /\ IsSome(p._remote_xor) /\ IsSome(p._xor)

\* the session values of C33
SessionValues(p) ==
    <<p.key, p.discovery_key, p.remote_discovery_key, p._nonce, p._remote_nonce>>

\* C33: the key, the local discovery key, the remote discovery key, the
\* local nonce and the remote nonce of an endpoint, once set, keep their
\* value in every step, whatever is called or received afterwards.
C33_SetOnce ==
    [][\A e \in Endpoints: \A i \in 1..5:
          IsSome(SessionValues(ep[e])[i]) =>
              SessionValues(ep[e])'[i] = SessionValues(ep[e])[i]]_vars

\* all five are set, and a second local feed call and a second remote Feed
\* have both been handled since
C33_Witness ==
    LET p == ep["a"]
    IN  /\ \A i \in 1..5: IsSome(SessionValues(p)[i])
        /\ Len(p._local_feeds) = 2
        /\ Len(p._remote_feeds) = 2 /\ IsSome(p._remote_feeds[2])

\* C34: every slot of the remote table that holds a channel holds one whose
\* remote_id is the index of that slot, also after the remote sent Feed
\* frames for one discovery key on two remote channel ids.
C34_RemoteSlotIds ==
    \A e \in Endpoints:
        LET p == ep[e]
        IN  \A r \in 1..Len(p._remote_feeds):
                IsSome(p._remote_feeds[r]) =>
                    p.chan[Unwrap(p._remote_feeds[r])].remote_id = Some(r - 1)

\* C35: no inbound frame fails the assertion of the inbound dispatch that
\* the remote table is as long as the frame's remote channel id plus one;
\* a frame on channel 0 that follows the opening of the remote channels 0
\* and 1 is dispatched to the channel of slot 0.
C35_TableLengthAssertion ==
    \A e \in Endpoints:
        ep[e].panic # "assert_eq: _remote_feeds.len() == id + 1"

\* the bytes of the paused write that the framer has not been given yet
Held(p) == IF IsSome(p._data) THEN Len(Unwrap(p._data)) - p._start ELSE 0
\* how far the remote cipher has moved along its keystream
RemotePos(p) == IF IsSome(p._remote_xor) THEN Unwrap(p._remote_xor).pos ELSE 0

\* C36: on an encrypted receiver that has the remote's first Feed, the
\* remote cipher stands at the number of bytes after that Feed which were
\* given to the framer, and the frames dispatched so far are the frames the
\* remote sent, decrypted, in stream order; also when the Feed shares its
\* write with later bytes and when the parser waits for the key.
C36_RemoteKeystream ==
    LET p == ep["a"]
    IN  (p.encrypted /\ Running(p) /\ ~p.destroyed /\ recv["a"] >= Len(script[1])) =>
           /\ RemotePos(p) = recv["a"] - Len(script[1]) - Held(p)
           /\ \A i \in 1..Len(p.dispatched):
                 p.dispatched[i] = FrameOf(RemotePlain(remote)[i])

\* C37: when two encrypted endpoints that each called feed once for the
\* same key have nothing left to deliver to each other, whatever the order
\* of the feed calls and of the deliveries, neither is destroyed and each
\* holds the id of the other's Handshake as remote_id.
C37_PairHandshake ==
    (PairDone /\ \A e \in Endpoints: ep[e].encrypted) =>
        \A e \in Endpoints:
            /\ Running(ep[e])
            /\ ~ep[e].destroyed
            /\ IsSome(ep[e].remote_id)

\* the framer of p stands between two frames and reads the remote's bytes
\* as the remote wrote them
InStep(p) ==
    /\ Running(p) /\ ~p.destroyed /\ ~p._needs_key
    /\ p._missing = 0 /\ p._pointer = 0
    /\ p.encrypted =>
          /\ IsSome(p._remote_xor)
          /\ Unwrap(p._remote_xor).key = remote.key
          /\ Unwrap(p._remote_xor).pos = recv["a"] - Len(script[1])

C39_NeedsKey ==
    \A e \in Endpoints:
        LET p == ep[e]
        IN  /\ (Running(p) /\ ~p.destroyed /\ p._needs_key) =>
                  (p.encrypted /\ IsNone(p.key))
            /\ ~p.encrypted => ~p._needs_key

\* an encrypted endpoint waits for its key with the remote's Feed taken in
C39_Witness ==
    LET p == ep["a"]
    IN  /\ Running(p) /\ ~p.destroyed
        /\ p._needs_key /\ p.encrypted /\ IsNone(p.key)
        /\ IsSome(p._remote_nonce) /\ IsSome(p._data)

====
